---------------------------- MODULE Spec2Model ----------------------------
(***************************************************************************)
(* State-machine model of the browser adventure engine:                    *)
(*   menuHandler.js (menus, story traversal, overlay), gameState.js        *)
(*   (history, user name, save blob), inventoryManager.js (inventory),     *)
(*   commandHandler.js (the `load` and `options` commands), userInput.js   *)
(*   (name entry), script.js (keyboard dispatch).                          *)
(*                                                                         *)
(* JavaScript runs one handler at a time to completion; every handler,     *)
(* timer callback and promise continuation is one action here.  Handlers   *)
(* are written as operators from a state record to a state record so that  *)
(* a handler calling another one is a nested application.                  *)
(*                                                                         *)
(* A string whose characters the code inspects (a condition, a             *)
(* consequence, an inventory key) is a sequence of atoms: a word, or one   *)
(* of the separators ":" and " ".                                          *)
(***************************************************************************)
EXTENDS Integers, Sequences, FiniteSets, TLC

\* ------------------------------------------------------------------------
\* Bounds of the model (not program constants)
\* ------------------------------------------------------------------------
MaxHist == 3

MaxTimers == 3

MaxPending == 1

\* key presses and clicks that can arrive while a timer is pending
MaxBurst == 2

\* lines of a [CHOICES] block in the texts given to parseFile
MaxChoiceLines == 2

\* the largest quantity of an item the inventory holds
MaxQty == 3

\* the largest number of lines of a [RANDOM_EVENT] block
MaxEventLines == 2

\* the largest number of lines the scan is followed for
MaxScan == 4

\* JavaScript's null / undefined where a step key or a name is expected
Null == "null"

\* ------------------------------------------------------------------------
\* Strings as atom sequences
\* ------------------------------------------------------------------------
\* whitespace, as trim() and \s see it
IsSpace(a) == a \in {" ", "\n"}

RECURSIVE TrimLeft(_)
TrimLeft(t) ==
    IF t # <<>> /\ IsSpace(Head(t)) THEN TrimLeft(Tail(t)) ELSE t

RECURSIVE TrimRight(_)
TrimRight(t) ==
    IF t # <<>> /\ IsSpace(t[Len(t)]) THEN TrimRight(SubSeq(t, 1, Len(t) - 1)) ELSE t

\* String.prototype.trim
Trim(t) == TrimRight(TrimLeft(t))

\* String.prototype.startsWith
StartsWith(t, p) == Len(t) >= Len(p) /\ SubSeq(t, 1, Len(p)) = p

\* String.prototype.includes, for a one-atom needle
Includes(t, a) == \E i \in 1..Len(t) : t[i] = a

\* String.prototype.substring(n): drop the first n atoms
Substring(t, n) == SubSeq(t, n + 1, Len(t))

\* String.prototype.split(sep): the pieces between the separators
Split(t, sep) ==
    LET seps == {i \in 1..Len(t) : t[i] = sep}
        n == Cardinality(seps)
        \* the position of the k-th separator; 0 and Len(t) + 1 at the ends
        pos(k) == IF k = 0 THEN 0
                  ELSE IF k = n + 1 THEN Len(t) + 1
                  ELSE CHOOSE p \in seps : Cardinality({q \in seps : q < p}) = k - 1
    IN [k \in 1..(n + 1) |-> SubSeq(t, pos(k - 1) + 1, pos(k) - 1)]

\* The integers the model's number words denote
IntOf == [w \in {"0", "1", "2", "3", "-1", "-2"} |->
            CASE w = "0" -> 0 [] w = "1" -> 1 [] w = "2" -> 2 [] w = "3" -> 3
              [] w = "-1" -> 0 - 1 [] w = "-2" -> 0 - 2]

\* parseInt(str) is a number (not NaN): the text starts with a number word
IsInt(t) == t # <<>> /\ t[1] \in DOMAIN IntOf

\* `parseInt(s) || 1`: NaN and 0 are falsy
ParseIntOr1(t) ==
    IF IsInt(t) /\ IntOf[t[1]] # 0 THEN IntOf[t[1]] ELSE 1

\* `const [itemName, quantityStr] = parts; parseInt(quantityStr) || 1`:
\* an absent second piece is undefined, and parseInt(undefined) is NaN
QuantityOf(parts) ==
    IF Len(parts) >= 2 THEN ParseIntOr1(Trim(parts[2])) ELSE 1

\* ------------------------------------------------------------------------
\* InventoryManager (inventoryManager.js); inv is the `inventory` object:
\* a function from the stored keys to their quantities
\* ------------------------------------------------------------------------
\* `this.inventory[itemName] || 0`
getItemQuantity(inv, itemName) ==
    IF itemName \in DOMAIN inv THEN inv[itemName] ELSE 0

hasItem(inv, itemName, requiredQuantity) ==
    IF itemName = <<>> THEN FALSE
    ELSE getItemQuantity(inv, itemName) >= requiredQuantity

\* addItem that stores the quantity instead of adding it
addItem_overwriting(inv, itemName, quantity) ==
    IF itemName = <<>> \/ quantity <= 0 THEN inv
    ELSE [k \in DOMAIN inv \cup {itemName} |->
            IF k = itemName THEN quantity ELSE inv[k]]

\* the inventory after addItem
\* variant: addItem without the test of the quantity
addItem_anyQuantity(inv, itemName, quantity) ==
    IF itemName = <<>> THEN inv
    ELSE [k \in DOMAIN inv \cup {itemName} |->
            IF k = itemName THEN getItemQuantity(inv, itemName) + quantity ELSE inv[k]]

addItem(inv, itemName, quantity) ==
    IF itemName = <<>> \/ quantity <= 0 THEN inv
    ELSE [k \in DOMAIN inv \cup {itemName} |->
            IF k = itemName THEN getItemQuantity(inv, itemName) + quantity ELSE inv[k]]

\* removeItem without the `delete`: the key stays with the quantity 0
removeItem_keeping(inv, itemName, quantity) ==
    IF itemName = <<>> \/ quantity <= 0 THEN inv
    ELSE IF ~hasItem(inv, itemName, quantity) THEN inv
    ELSE [inv EXCEPT ![itemName] = @ - quantity]

\* what addItem returns
addItemReturn(itemName, quantity) == ~(itemName = <<>> \/ quantity <= 0)

\* what removeItem returns
removeItemReturn(inv, itemName, quantity) ==
    IF itemName = <<>> \/ quantity <= 0 THEN FALSE
    ELSE hasItem(inv, itemName, quantity)

\* the inventory after removeItem
removeItem(inv, itemName, quantity) ==
    IF itemName = <<>> \/ quantity <= 0 THEN inv
    ELSE IF ~hasItem(inv, itemName, quantity) THEN inv
    ELSE IF inv[itemName] - quantity <= 0
         THEN [k \in DOMAIN inv \ {itemName} |-> inv[k]]
         ELSE [inv EXCEPT ![itemName] = @ - quantity]

checkInventoryCondition(inv, condition) ==
    IF condition = <<>> THEN TRUE
    ELSE IF Includes(condition, ":")
         THEN LET parts == Split(condition, ":")
                  itemName == Trim(parts[1])
                  quantity == QuantityOf(parts)
              IN hasItem(inv, itemName, quantity)
         ELSE hasItem(inv, Trim(condition), 1)

\* applyInventoryConsequence whose SET branch takes any target for the
\* inventory
applyInventoryConsequence_anyTarget(inv, consequence) ==
    IF consequence = <<>> THEN inv
    ELSE LET trimmed == Trim(consequence) IN
         IF StartsWith(trimmed, <<"USE", " ">>)
         THEN LET itemSpec == Trim(Substring(trimmed, 2))
                  parts == IF Includes(itemSpec, ":")
                           THEN Split(itemSpec, ":") ELSE <<itemSpec, <<"1">> >>
              IN removeItem(inv, Trim(parts[1]), QuantityOf(parts))
         ELSE IF StartsWith(trimmed, <<"SET", " ">>)
         THEN LET parts == Split(Trim(Substring(trimmed, 2)), ":") IN
              IF Len(parts) >= 3
              THEN addItem(inv, Trim(parts[2]), QuantityOf(Tail(parts)))
              ELSE inv
         ELSE inv

\* the inventory after applyInventoryConsequence
applyInventoryConsequence(inv, consequence) ==
    IF consequence = <<>> THEN inv
    ELSE LET trimmed == Trim(consequence) IN
         IF StartsWith(trimmed, <<"USE", " ">>)
         THEN LET itemSpec == Trim(Substring(trimmed, 2))
                  parts == IF Includes(itemSpec, ":")
                           THEN Split(itemSpec, ":") ELSE <<itemSpec, <<"1">> >>
                  itemName == Trim(parts[1])
                  quantity == QuantityOf(parts)
              IN removeItem(inv, itemName, quantity)
         ELSE IF StartsWith(trimmed, <<"SET", " ">>)
                 /\ \E i \in 1..(Len(trimmed) - 1) :
                        trimmed[i] = "inventory" /\ trimmed[i + 1] = ":"
         THEN LET spec == Trim(Substring(trimmed, 2)) IN
              IF StartsWith(spec, <<"inventory", ":">>)
              THEN LET itemSpec == Substring(spec, 2)
                       parts == Split(itemSpec, ":")
                       itemName == Trim(parts[1])
                       quantity == QuantityOf(parts)
                   IN IF quantity > 0 THEN addItem(inv, itemName, quantity)
                      ELSE IF quantity < 0 THEN removeItem(inv, itemName, 0 - quantity)
                      ELSE inv
              ELSE inv
         ELSE inv

\* `new InventoryManager(initialInventory)`: a copy of the given object
NewInventoryManager(initialInventory) == initialInventory

\* serialize(): { inventory: {...}, totalItems }
RECURSIVE SumQty(_, _)
SumQty(inv, keys) ==
    IF keys = {} THEN 0
    ELSE LET k == CHOOSE x \in keys : TRUE IN inv[k] + SumQty(inv, keys \ {k})

getTotalItemCount(inv) == SumQty(inv, DOMAIN inv)

serialize(inv) == [inventory |-> inv, totalItems |-> getTotalItemCount(inv)]

EmptyInventory == [k \in {} |-> 0]

\* ------------------------------------------------------------------------
\* Parsed documents: what parseFile returns (fileParser.js) for three .adv
\* texts.  A choice is what parseChoices builds from one line.
\* ------------------------------------------------------------------------
Choice(label, description, target, conditions, consequences) ==
    [label |-> label, description |-> description, target |-> target,
     conditions |-> conditions, consequences |-> consequences]

NoEndings == [success |-> <<>>, failure |-> <<>>, neutral |-> <<>>]

\* [GAME_NAME] Test  [MAIN_MENU] Start New Game / Load Game / Options / Exit
\* [INVENTORY] key: 1
\* [STEP_1] You wake.       A) Use key -> STEP_2 {USE key}
\*                          B) Go back to sleep -> ENDING_FAILURE
\*                          C) Climb -> STEP_3
\* [STEP_2] You see light.  A) Unlock -> STEP_3 {IF key}
\*                          B) Walk -> ENDING_SUCCESS
\*                          C) Wait -> ENDING_NEUTRAL
\* [STEP_3] A roof.         A) Down -> STEP_1 {SET inventory:key:1}
\* [ENDING_SUCCESS] You win.  [ENDING_FAILURE] You lose.   (no ENDING_NEUTRAL)
DocTest ==
    [gameName |-> <<"Test">>,
     mainMenuItems |-> << <<"Start New Game">>, <<"Load Game">>, <<"Options">>, <<"Exit">> >>,
     inventory |-> (<<"key">> :> 1),
     steps |->
        ("1" :> [narrative |-> <<"You wake.">>,
                 choices |-> <<
                    Choice("A", <<"Use key">>, <<"STEP_", "2">>, <<>>, << <<"USE", " ", "key">> >>),
                    Choice("B", <<"Go back to sleep">>, <<"ENDING_", "FAILURE">>, <<>>, <<>>),
                    Choice("C", <<"Climb">>, <<"STEP_", "3">>, <<>>, <<>>) >>]) @@
        ("2" :> [narrative |-> <<"You see light.">>,
                 choices |-> <<
                    Choice("A", <<"Unlock">>, <<"STEP_", "3">>, << <<"key">> >>, <<>>),
                    Choice("B", <<"Walk">>, <<"ENDING_", "SUCCESS">>, <<>>, <<>>),
                    Choice("C", <<"Wait">>, <<"ENDING_", "NEUTRAL">>, <<>>, <<>>) >>]) @@
        ("3" :> [narrative |-> <<"A roof.">>,
                 choices |-> <<
                    Choice("A", <<"Down">>, <<"STEP_", "1">>, <<>>,
                           << <<"SET", " ", "inventory", ":", "key", ":", "1">> >>) >>]),
     endings |-> [success |-> <<"You win.">>, failure |-> <<"You lose.">>, neutral |-> <<>>],
     randomEvents |-> <<>>,
     askForName |-> FALSE,
     currentStep |-> Null]

\* [GAME_NAME] Quest  [NAME] true  [MAIN_MENU] Start New Game / Load Game
\* (no [INVENTORY])
\* [STEP_1] Hello [USER].   A) Jump -> STEP_9      (STEP_9 is not defined)
\*                          B) Rest -> STEP_2 {IF lamp}
\* [STEP_2] The end.        (no choices)
DocQuest ==
    [gameName |-> <<"Quest">>,
     mainMenuItems |-> << <<"Start New Game">>, <<"Load Game">> >>,
     inventory |-> EmptyInventory,
     steps |->
        ("1" :> [narrative |-> <<"Hello ", "[USER]", ".">>,
                 choices |-> <<
                    Choice("A", <<"Jump">>, <<"STEP_", "9">>, <<>>, <<>>),
                    Choice("B", <<"Rest">>, <<"STEP_", "2">>, << <<"lamp">> >>, <<>>) >>]) @@
        ("2" :> [narrative |-> <<"The end.">>, choices |-> <<>>]),
     endings |-> NoEndings,
     randomEvents |-> <<>>,
     askForName |-> TRUE,
     currentStep |-> Null]

\* [GAME_NAME] Side  [MAIN_MENU] Start New Game
\* [STEP_2] Nothing.        (no STEP_1, no choices)
DocSide ==
    [gameName |-> <<"Side">>,
     mainMenuItems |-> << <<"Start New Game">> >>,
     inventory |-> EmptyInventory,
     steps |-> ("2" :> [narrative |-> <<"Nothing.">>, choices |-> <<>>]),
     endings |-> NoEndings,
     randomEvents |-> <<>>,
     askForName |-> FALSE,
     currentStep |-> Null]

Documents == {DocTest, DocQuest, DocSide}

\* `let gameData = {}` before any document is loaded
EmptyGameData ==
    [gameName |-> <<>>, mainMenuItems |-> <<>>, inventory |-> EmptyInventory,
     steps |-> [k \in {} |-> 0], endings |-> NoEndings, randomEvents |-> <<>>,
     askForName |-> FALSE, currentStep |-> Null]

\* the names a player may enter (trimmed); the empty name is falsy
Names == {<<>>, <<"Ann">>}

\* ------------------------------------------------------------------------
\* Menu item lists of menuHandler.js
\* ------------------------------------------------------------------------
optionsMenuItems == << <<"Font Size">>, <<"Font Color">>, <<"Back">> >>

fontSizeMenuItems ==
    << <<"12px">>, <<"14px">>, <<"16px (Default)">>, <<"18px">>, <<"20px">>, <<"Back">> >>

fontColorMenuItems ==
    << <<"Red">>, <<"Orange">>, <<"Yellow">>, <<"Green">>, <<"Blue">>, <<"Indigo">>,
       <<"Violet">>, <<"White (Default)">>, <<"Cyan">>, <<"Back">> >>

endingMenuItems == << <<"Return to the previous page">>, <<"Quit to the command prompt">> >>

\* String.fromCharCode('a'.charCodeAt(0) + n)
LetterAfterA(n) ==
    IF n + 1 <= 8 THEN <<"a", "b", "c", "d", "e", "f", "g", "h">>[n + 1] ELSE "z"

\* text.replace(/\[USER\]/g, name)
RECURSIVE ReplaceUser(_, _)
ReplaceUser(text, name) ==
    IF text = <<>> THEN <<>>
    ELSE (IF Head(text) = "[USER]" THEN name ELSE <<Head(text)>>)
         \o ReplaceUser(Tail(text), name)

\* ------------------------------------------------------------------------
\* Files the player can pick
\* ------------------------------------------------------------------------
\* a .adv file: its text parses to a document, or parseFile throws
AdvFiles ==
    [ok : {TRUE}, doc : Documents] \cup {[ok |-> FALSE, doc |-> EmptyGameData]}

\* the object getSerializableGameState returns (gameStats is never changed
\* by any handler and is left out)
SaveObject(name, hist, idx, step, inv) ==
    [userName |-> name, storyHistory |-> hist, currentHistoryIndex |-> idx,
     currentStep |-> step, inventory |-> serialize(inv)]

\* a file offered to the .sadv picker: none, one with another extension, text
\* that is not JSON, or the JSON text of an object (`missing` names the
\* fields the object does not have; `value` holds undefined as Null, <<>>, -1)
NoFile == [picked |-> FALSE, ext |-> "", json |-> FALSE, missing |-> {},
           value |-> SaveObject(<<>>, <<>>, 0 - 1, Null, EmptyInventory)]

SaveFile(obj) ==
    [picked |-> TRUE, ext |-> "sadv", json |-> TRUE, missing |-> {}, value |-> obj]

ForeignFiles ==
    { NoFile,
      [NoFile EXCEPT !.picked = TRUE, !.ext = "txt"],
      [NoFile EXCEPT !.picked = TRUE, !.ext = "sadv"],
      SaveFile(SaveObject(<<>>, <<>>, 0 - 1, Null, EmptyInventory)),
      SaveFile(SaveObject(<<>>, <<"1", "7">>, 1, "7", EmptyInventory)),
      \* the text {"currentStep": "1"}
      [SaveFile(SaveObject(<<>>, <<>>, 0 - 1, "1", EmptyInventory))
          EXCEPT !.missing = {"storyHistory", "currentHistoryIndex", "inventory"}] }

\* files that `Save and quit` wrote while the document Test was played:
\* after Start New Game and choice A; the same after one step back
GameSaves ==
    { SaveFile(SaveObject(<<>>, <<"1", "2">>, 1, "2", DocTest.inventory)),
      SaveFile(SaveObject(<<>>, <<"1", "2">>, 0, "1", DocTest.inventory)) }

\* the files the player can offer to the .sadv picker
SaveFiles == ForeignFiles \cup GameSaves

\* localStorage: saveGameState is the only writer and nothing calls it
localStorage == [k \in {} |-> NoFile.value]

\* ------------------------------------------------------------------------
\* fileParser.js.  The text of a file is a sequence of atoms in which "\n"
\* ends a line; a tag line is "[", the tag's atoms, "]".
\* ------------------------------------------------------------------------
\* lines.join('\n')
RECURSIVE Join(_)
Join(lines) ==
    IF lines = <<>> THEN <<>>
    ELSE IF Len(lines) = 1 THEN lines[1]
    ELSE lines[1] \o <<"\n">> \o Join(Tail(lines))

\* `\d+`: the atoms that are step numbers
IsStepNumber(a) == a \in {"0", "1", "2", "3", "4", "5", "6", "7", "8", "9"}

\* `(STEP_\d+|ENDING_SUCCESS|ENDING_FAILURE|ENDING_NEUTRAL)` at the start of t
StartsWithTarget(t) ==
    /\ Len(t) >= 2
    /\ \/ t[1] = "STEP_" /\ IsStepNumber(t[2])
       \/ t[1] = "ENDING_" /\ t[2] \in {"SUCCESS", "FAILURE", "NEUTRAL"}

\* `(?:\s*\{\s*(.+?)\s*\})?$` matches what follows the target
ExtrasMatch(rest) ==
    \/ rest = <<>>
    \/ LET r == TrimLeft(rest) IN
       /\ Len(r) >= 3
       /\ r[1] = "{"
       /\ r[Len(r)] = "}"
       /\ Trim(SubSeq(r, 2, Len(r) - 1)) # <<>>

\* the arrow at position k lets the whole pattern match
ArrowMatches(line, k) ==
    /\ k >= 4
    /\ k <= Len(line)
    /\ line[k] \in {"->", "→"}
    /\ LET after == TrimLeft(SubSeq(line, k + 1, Len(line))) IN
       /\ StartsWithTarget(after)
       /\ ExtrasMatch(SubSeq(after, 3, Len(after)))

\* trimmedLine.match(...): the label, `)`, a description, an arrow (the first
\* one with which the rest matches), the target and the optional braces
ChoiceLineMatches(line) ==
    /\ Len(line) >= 2
    /\ line[1] \in {"A", "B", "C", "D"}
    /\ line[2] = ")"
    /\ \E k \in 1..Len(line) : ArrowMatches(line, k)

\* the extras between the braces: split(';').map(s => s.trim())
ExtrasOf(rest) ==
    IF rest = <<>> THEN <<>>
    ELSE LET r == TrimLeft(rest)
             parts == Split(Trim(SubSeq(r, 2, Len(r) - 1)), ";")
         IN [i \in 1..Len(parts) |-> Trim(parts[i])]

\* the extras that start with IF, without the IF and trimmed
RECURSIVE ConditionsOf(_)
ConditionsOf(extras) ==
    IF extras = <<>> THEN <<>>
    ELSE (IF Head(extras) # <<>> /\ Head(Head(extras)) = "IF"
          THEN <<Trim(Tail(Head(extras)))>> ELSE <<>>)
         \o ConditionsOf(Tail(extras))

\* the extras that start with SET or USE, as they are
RECURSIVE ConsequencesOf(_)
ConsequencesOf(extras) ==
    IF extras = <<>> THEN <<>>
    ELSE (IF Head(extras) # <<>> /\ Head(Head(extras)) \in {"SET", "USE"}
          THEN <<Head(extras)>> ELSE <<>>)
         \o ConsequencesOf(Tail(extras))

\* the choice object built from a matching line
ChoiceOfLine(line) ==
    LET k == CHOOSE i \in 1..Len(line) :
                 ArrowMatches(line, i) /\ \A j \in 1..(i - 1) : ~ArrowMatches(line, j)
        after == TrimLeft(SubSeq(line, k + 1, Len(line)))
        extras == ExtrasOf(SubSeq(after, 3, Len(after)))
    IN Choice(line[1], Trim(SubSeq(line, 3, k - 1)), SubSeq(after, 1, 2),
              ConditionsOf(extras), ConsequencesOf(extras))

\* the Error a parser function throws: which `throw` it is, and the line its
\* message quotes
Thrown(kind, line) == [kind |-> kind, line |-> line]

NoError == Thrown("none", <<>>)

\* parseChoices without the `throw`: a line that does not match is skipped
RECURSIVE parseChoices_skipping(_)
parseChoices_skipping(contentLines) ==
    IF contentLines = <<>> THEN [ok |-> TRUE, choices |-> <<>>, error |-> NoError]
    ELSE LET trimmedLine == Trim(Head(contentLines))
             rest == parseChoices_skipping(Tail(contentLines))
         IN IF ChoiceLineMatches(trimmedLine)
            THEN [rest EXCEPT !.choices = <<ChoiceOfLine(trimmedLine)>> \o @]
            ELSE rest

\* parseChoices(contentLines): [ok, choices, error]; ok is FALSE when it
\* throws, and error is then `Malformed choice line: "${trimmedLine}"`
RECURSIVE parseChoices(_)
parseChoices(contentLines) ==
    IF contentLines = <<>> THEN [ok |-> TRUE, choices |-> <<>>, error |-> NoError]
    ELSE LET trimmedLine == Trim(Head(contentLines))
             rest == parseChoices(Tail(contentLines))
         IN IF ChoiceLineMatches(trimmedLine)
            THEN [ok |-> rest.ok,
                  choices |-> IF rest.ok
                              THEN <<ChoiceOfLine(trimmedLine)>> \o rest.choices
                              ELSE <<>>,
                  error |-> rest.error]
            ELSE IF Len(trimmedLine) > 0
            THEN [ok |-> FALSE, choices |-> <<>>,
                  error |-> Thrown("Malformed choice line", trimmedLine)]
            ELSE rest

\* one line of a key-value section: [ok, skip, key, value]
KeyValueOfLine(line) ==
    LET trimmedLine == Trim(line)
        parts == Split(trimmedLine, ":")
        bad == [ok |-> FALSE, skip |-> FALSE, key |-> <<>>, value |-> 0]
    IN IF trimmedLine = <<>> THEN [bad EXCEPT !.ok = TRUE, !.skip = TRUE]
       ELSE IF ~Includes(trimmedLine, ":") THEN bad
       ELSE IF Len(parts) # 2 \/ Trim(parts[1]) = <<>> \/ Trim(parts[2]) = <<>> THEN bad
       ELSE [ok |-> TRUE, skip |-> FALSE, key |-> Trim(parts[1]),
             \* `isNaN(Number(value)) ? value : Number(value)`
             value |-> IF IsInt(Trim(parts[2])) /\ Len(Trim(parts[2])) = 1
                       THEN IntOf[Trim(parts[2])[1]] ELSE Trim(parts[2])]

\* parseKeyValue(content): [ok, obj, line]; a later line with the same key wins
RECURSIVE parseKeyValueLines(_, _)
parseKeyValueLines(lines, obj) ==
    IF lines = <<>> THEN [ok |-> TRUE, obj |-> obj, line |-> <<>>]
    ELSE LET kv == KeyValueOfLine(Head(lines)) IN
         IF ~kv.ok THEN [ok |-> FALSE, obj |-> obj, line |-> Trim(Head(lines))]
         ELSE IF kv.skip THEN parseKeyValueLines(Tail(lines), obj)
         ELSE parseKeyValueLines(Tail(lines),
                [k \in DOMAIN obj \cup {kv.key} |->
                    IF k = kv.key THEN kv.value ELSE obj[k]])

parseKeyValue(content) == parseKeyValueLines(Split(content, "\n"), EmptyInventory)

\* parseFloat(value) for the spellings of a chance, in tenths: "1" and "1.0"
\* are the same number; any other text is NaN
TenthsOf ==
    ("0" :> 0) @@ ("0.0" :> 0) @@ ("0.5" :> 5) @@ ("1" :> 10) @@ ("1.0" :> 10)

\* a chance is [defined, nan, tenths]: not assigned, or NaN, or a number
parseFloat(value) ==
    IF Len(value) = 1 /\ value[1] \in DOMAIN TenthsOf
    THEN [defined |-> TRUE, nan |-> FALSE, tenths |-> TenthsOf[value[1]]]
    ELSE [defined |-> TRUE, nan |-> TRUE, tenths |-> 0]

\* `parts.forEach(part => ...)`: event is [chance, outcome]; an outcome that
\* is not assigned and an empty one are both <<>> (both are falsy, and the
\* field is read for nothing else)
RECURSIVE EventOfParts(_, _)
EventOfParts(parts, event) ==
    IF parts = <<>> THEN event
    ELSE LET kv == Split(Trim(Head(parts)), ":")
             key == Trim(kv[1])
             value == IF Len(kv) >= 2 THEN Trim(kv[2]) ELSE <<>>
         IN EventOfParts(Tail(parts),
                IF key = <<"chance">> THEN [event EXCEPT !.chance = parseFloat(value)]
                ELSE IF key = <<"outcome">> THEN [event EXCEPT !.outcome = value]
                ELSE event)

\* parseRandomEvent(content), from the lines on: [ok, events, error]
RECURSIVE parseRandomEventLines(_)
parseRandomEventLines(lines) ==
    IF lines = <<>> THEN [ok |-> TRUE, events |-> <<>>, error |-> NoError]
    ELSE LET trimmedLine == Trim(Head(lines))
             event == EventOfParts(Split(trimmedLine, ","),
                                   [chance |-> [defined |-> FALSE, nan |-> FALSE,
                                                tenths |-> 0],
                                    outcome |-> <<>>])
             rest == parseRandomEventLines(Tail(lines))
         IN IF trimmedLine = <<>> THEN rest
            \* `if (event.chance && event.outcome)`: NaN and 0 are falsy
            ELSE IF /\ event.chance.defined /\ ~event.chance.nan
                    /\ event.chance.tenths # 0
                    /\ event.outcome # <<>>
            THEN [ok |-> rest.ok,
                  events |-> IF rest.ok
                             THEN <<[chance |-> event.chance.tenths,
                                     outcome |-> event.outcome]>> \o rest.events
                             ELSE <<>>,
                  error |-> rest.error]
            ELSE [ok |-> FALSE, events |-> <<>>,
                  error |-> Thrown("Malformed random event line", trimmedLine)]

parseRandomEvent(content) == parseRandomEventLines(Split(content, "\n"))

\* the non-empty trimmed lines of a [MAIN_MENU] section
RECURSIVE NonEmptyTrimmed(_)
NonEmptyTrimmed(lines) ==
    IF lines = <<>> THEN <<>>
    ELSE (IF Trim(Head(lines)) # <<>> THEN <<Trim(Head(lines))>> ELSE <<>>)
         \o NonEmptyTrimmed(Tail(lines))

\* `currentSection.replace('STEP_', '')` as a key of gameData.steps
StepKeyOf(section) ==
    IF section # <<>> /\ Head(section) = "STEP_"
    THEN (IF Len(section) >= 2 THEN section[2] ELSE "")
    ELSE section[1]

\* `if (!gameData.steps[stepKey]) gameData.steps[stepKey] = {...}`
WithStep(steps, stepKey) ==
    IF stepKey \in DOMAIN steps THEN steps
    ELSE [k \in DOMAIN steps \cup {stepKey} |->
            IF k = stepKey THEN [narrative |-> <<>>, choices |-> <<>>] ELSE steps[k]]

\* processBuffer(): ps is [gameData, currentSection, currentSubSection,
\* currentContentBuffer, ok]; a null section is <<>>; ok is FALSE once
\* something has thrown.  The sections STATS, VARIABLES, CONDITIONS,
\* CHECKPOINT and CONSEQUENCE fill fields no handler reads and are left out.
processBuffer(ps) ==
    LET cleared == [ps EXCEPT !.currentContentBuffer = <<>>]
        sectionContent == Trim(Join(ps.currentContentBuffer))
    IN
    IF ps.currentSubSection # <<>>
    THEN IF ps.currentSection = <<>>
         THEN [cleared EXCEPT !.ok = FALSE, !.error = Thrown("TypeError", <<>>)]
         ELSE LET stepKey == StepKeyOf(ps.currentSection)
                  steps == WithStep(ps.gameData.steps, stepKey)
              IN IF ps.currentSubSection = <<"NARRATIVE">>
                 THEN [cleared EXCEPT !.gameData.steps =
                          [steps EXCEPT ![stepKey].narrative = sectionContent]]
                 ELSE LET result == parseChoices(ps.currentContentBuffer) IN
                      IF result.ok
                      THEN [cleared EXCEPT !.gameData.steps =
                               [steps EXCEPT ![stepKey].choices = result.choices]]
                      ELSE [cleared EXCEPT !.ok = FALSE, !.error = result.error]
    ELSE IF ps.currentSection # <<>>
    THEN CASE ps.currentSection = <<"GAME_NAME">> ->
                [cleared EXCEPT !.gameData.gameName = sectionContent]
           [] ps.currentSection = <<"MAIN_MENU">> ->
                [cleared EXCEPT !.gameData.mainMenuItems =
                    NonEmptyTrimmed(Split(sectionContent, "\n"))]
           [] ps.currentSection = <<"INVENTORY">> ->
                LET kv == parseKeyValue(sectionContent) IN
                IF kv.ok THEN [cleared EXCEPT !.gameData.inventory = kv.obj]
                ELSE [cleared EXCEPT !.ok = FALSE,
                                     !.error = Thrown("Malformed key-value line", kv.line)]
           [] ps.currentSection = <<"ENDING_", "SUCCESS">> ->
                [cleared EXCEPT !.gameData.endings.success = sectionContent]
           [] ps.currentSection = <<"ENDING_", "FAILURE">> ->
                [cleared EXCEPT !.gameData.endings.failure = sectionContent]
           [] ps.currentSection = <<"ENDING_", "NEUTRAL">> ->
                [cleared EXCEPT !.gameData.endings.neutral = sectionContent]
           [] ps.currentSection = <<"RANDOM_EVENT">> ->
                LET result == parseRandomEvent(sectionContent) IN
                IF result.ok THEN [cleared EXCEPT !.gameData.randomEvents = result.events]
                ELSE [cleared EXCEPT !.ok = FALSE, !.error = result.error]
           [] ps.currentSection = <<"NAME">> ->
                [cleared EXCEPT !.gameData.askForName =
                    (sectionContent \in {<<"true">>, <<"True">>, <<"TRUE">>})]
           [] OTHER -> cleared
    ELSE cleared

\* `trimmedLine.startsWith('[') && trimmedLine.endsWith(']')`
IsTagLine(trimmedLine) ==
    /\ trimmedLine # <<>>
    /\ Head(trimmedLine) = "["
    /\ trimmedLine[Len(trimmedLine)] = "]"

\* parseLine without the test of lines 102-104: the tag opens a sub-section
\* whatever the current section is
parseLine_unchecked(ps, line) ==
    LET trimmedLine == Trim(line) IN
    IF ~ps.ok THEN ps
    ELSE IF ~IsTagLine(trimmedLine)
    THEN [ps EXCEPT !.currentContentBuffer = Append(@, line)]
    ELSE LET tag == SubSeq(trimmedLine, 2, Len(trimmedLine) - 1)
             \* p1: the state after processBuffer()
             OpenTag(p1) ==
                IF ~p1.ok THEN p1
                ELSE IF tag # <<>> /\ Head(tag) = "STEP_"
                THEN [p1 EXCEPT !.currentSection = tag, !.currentSubSection = <<>>,
                                !.gameData.steps = WithStep(@, StepKeyOf(tag))]
                ELSE IF tag \in {<<"NARRATIVE">>, <<"CHOICES">>}
                THEN [p1 EXCEPT !.currentSubSection = tag]
                ELSE IF tag # <<>> /\ Head(tag) = "/"
                THEN IF p1.currentSubSection # <<>> /\ Tail(tag) = p1.currentSubSection
                     THEN [p1 EXCEPT !.currentSubSection = <<>>]
                     ELSE IF p1.currentSection # <<>> /\ Tail(tag) = p1.currentSection
                     THEN [p1 EXCEPT !.currentSection = <<>>]
                     ELSE p1
                ELSE [p1 EXCEPT !.currentSection = tag, !.currentSubSection = <<>>]
         IN OpenTag(processBuffer(ps))

\* the body of the loop over the lines, for one line
parseLine(ps, line) ==
    LET trimmedLine == Trim(line) IN
    IF ~ps.ok THEN ps
    ELSE IF ~IsTagLine(trimmedLine)
    THEN [ps EXCEPT !.currentContentBuffer = Append(@, line)]
    ELSE LET tag == SubSeq(trimmedLine, 2, Len(trimmedLine) - 1)
             \* p1: the state after processBuffer()
             OpenTag(p1) ==
                IF ~p1.ok THEN p1
                ELSE IF tag # <<>> /\ Head(tag) = "STEP_"
                THEN [p1 EXCEPT !.currentSection = tag, !.currentSubSection = <<>>,
                                !.gameData.steps = WithStep(@, StepKeyOf(tag))]
                ELSE IF tag \in {<<"NARRATIVE">>, <<"CHOICES">>}
                THEN IF p1.currentSection = <<>> \/ Head(p1.currentSection) # "STEP_"
                     THEN [p1 EXCEPT !.ok = FALSE,
                                     !.error = Thrown("found outside of a [STEP_X] block", tag)]
                     ELSE [p1 EXCEPT !.currentSubSection = tag]
                ELSE IF tag # <<>> /\ Head(tag) = "/"
                THEN IF p1.currentSubSection # <<>> /\ Tail(tag) = p1.currentSubSection
                     THEN [p1 EXCEPT !.currentSubSection = <<>>]
                     ELSE IF p1.currentSection # <<>> /\ Tail(tag) = p1.currentSection
                     THEN [p1 EXCEPT !.currentSection = <<>>]
                     ELSE p1
                ELSE [p1 EXCEPT !.currentSection = tag, !.currentSubSection = <<>>]
         IN OpenTag(processBuffer(ps))

\* `for (const line of lines)`, from the i-th line on: the state after a line
\* is bound as a value before the next line is taken, so that it is computed
\* once
RECURSIVE parseLines(_, _, _)
parseLines(ps, lines, i) ==
    IF i > Len(lines) THEN ps
    ELSE CHOOSE r \in {parseLines(p, lines, i + 1) : p \in {parseLine(ps, lines[i])}} : TRUE

\* parseFile without its final validation
parseFile_unvalidated(content) ==
    LET ps0 == [gameData |-> EmptyGameData, currentSection |-> <<>>,
                currentSubSection |-> <<>>, currentContentBuffer |-> <<>>,
                ok |-> TRUE, error |-> NoError]
        final(ps) ==
            IF ~ps.ok THEN [ok |-> FALSE, doc |-> EmptyGameData, error |-> ps.error]
            ELSE [ok |-> TRUE, doc |-> ps.gameData, error |-> NoError]
    IN CHOOSE r \in { final(IF ps1.ok THEN processBuffer(ps1) ELSE ps1) :
                         ps1 \in { parseLines(ps0, lines, 1) :
                                      lines \in {Split(content, "\n")} } } : TRUE

\* parseFile(content): [ok, doc, error]; ok is FALSE when it throws
parseFile(content) ==
    LET ps0 == [gameData |-> EmptyGameData, currentSection |-> <<>>,
                currentSubSection |-> <<>>, currentContentBuffer |-> <<>>,
                ok |-> TRUE, error |-> NoError]
        thrown(error) == [ok |-> FALSE, doc |-> EmptyGameData, error |-> error]
        final(ps) ==
            IF ~ps.ok THEN thrown(ps.error)
            ELSE IF ps.gameData.gameName = <<>>
            THEN thrown(Thrown("Missing [GAME_NAME] section", <<>>))
            ELSE IF Len(ps.gameData.mainMenuItems) = 0
            THEN thrown(Thrown("Missing or empty [MAIN_MENU] section", <<>>))
            ELSE IF DOMAIN ps.gameData.steps = {}
            THEN thrown(Thrown("No [STEP_X] sections found", <<>>))
            ELSE [ok |-> TRUE, doc |-> ps.gameData, error |-> NoError]
    IN CHOOSE r \in { final(IF ps1.ok THEN processBuffer(ps1) ELSE ps1) :
                         ps1 \in { parseLines(ps0, lines, 1) :
                                      lines \in {Split(content, "\n")} } } : TRUE

\* ------------------------------------------------------------------------
\* Texts of .adv files
\* ------------------------------------------------------------------------
Tag(t) == <<"[">> \o t \o <<"]">>

\* `<label>) <description> -> <target>` with the optional `{extras}`
ChoiceLine(label, description, target, extras) ==
    <<label, ")", " ", description, " ", "->", " ">> \o target \o
    (IF extras = <<>> THEN <<>> ELSE <<" ", "{">> \o extras \o <<"}">>)

\* a [STEP_n] block with its narrative and its choice lines
StepBlock(n, narrative, choiceLines) ==
    << Tag(<<"STEP_", n>>), Tag(<<"NARRATIVE">>), narrative, Tag(<<"/", "NARRATIVE">>),
       Tag(<<"CHOICES">>) >> \o choiceLines \o << Tag(<<"/", "CHOICES">>) >>

\* the text whose parse is DocTest
TextTest ==
    Join(<< Tag(<<"GAME_NAME">>), <<"Test">>,
            Tag(<<"MAIN_MENU">>), <<"Start New Game">>, <<"Load Game">>,
            <<"Options">>, <<"Exit">>,
            Tag(<<"INVENTORY">>), <<"key", ":", " ", "1">> >>
         \o StepBlock("1", <<"You wake.">>,
              << ChoiceLine("A", "Use key", <<"STEP_", "2">>, <<"USE", " ", "key">>),
                 ChoiceLine("B", "Go back to sleep", <<"ENDING_", "FAILURE">>, <<>>),
                 ChoiceLine("C", "Climb", <<"STEP_", "3">>, <<>>) >>)
         \o StepBlock("2", <<"You see light.">>,
              << ChoiceLine("A", "Unlock", <<"STEP_", "3">>, <<"IF", " ", "key">>),
                 ChoiceLine("B", "Walk", <<"ENDING_", "SUCCESS">>, <<>>),
                 ChoiceLine("C", "Wait", <<"ENDING_", "NEUTRAL">>, <<>>) >>)
         \o StepBlock("3", <<"A roof.">>,
              << ChoiceLine("A", "Down", <<"STEP_", "1">>,
                            <<"SET", " ", "inventory", ":", "key", ":", "1">>) >>)
         \o << Tag(<<"ENDING_", "SUCCESS">>), <<"You win.">>,
               Tag(<<"ENDING_", "FAILURE">>), <<"You lose.">> >>)

\* the text whose parse is DocQuest
TextQuest ==
    Join(<< Tag(<<"GAME_NAME">>), <<"Quest">>,
            Tag(<<"NAME">>), <<"true">>,
            Tag(<<"MAIN_MENU">>), <<"Start New Game">>, <<"Load Game">> >>
         \o StepBlock("1", <<"Hello ", "[USER]", ".">>,
              << ChoiceLine("A", "Jump", <<"STEP_", "9">>, <<>>),
                 ChoiceLine("B", "Rest", <<"STEP_", "2">>, <<"IF", " ", "lamp">>) >>)
         \o StepBlock("2", <<"The end.">>, <<>>))

\* the text whose parse is DocSide
TextSide ==
    Join(<< Tag(<<"GAME_NAME">>), <<"Side">>,
            Tag(<<"MAIN_MENU">>), <<"Start New Game">> >>
         \o StepBlock("2", <<"Nothing.">>, <<>>))

\* choice lines of the grammar: a step target, the same label again with an
\* undefined step, an ending with extras, the arrow written as one character
WellFormedChoiceLines ==
    { ChoiceLine("A", "Go", <<"STEP_", "2">>, <<>>),
      ChoiceLine("A", "Run", <<"STEP_", "3">>, <<>>),
      ChoiceLine("B", "Win", <<"ENDING_", "SUCCESS">>,
                 <<"IF", " ", "key", ";", " ", "USE", " ", "key">>),
      <<"C", ")", " ", "Fall", " ", "→", " ", "ENDING_", "NEUTRAL">> }

\* non-blank lines outside the grammar: no arrow, a label outside A-D, text
\* after the target, a target that is neither a step nor an ending kind
MalformedChoiceLines ==
    { <<"A", ")", " ", "go", " ", "STEP_", "2">>,
      ChoiceLine("E", "Fly", <<"STEP_", "2">>, <<>>),
      ChoiceLine("A", "Go", <<"STEP_", "2", " ", "now">>, <<>>),
      ChoiceLine("A", "Go", <<"ENDING_", "BAD">>, <<>>) }

\* lines the pattern of line 144 matches whose braces hold an extra that
\* starts with none of IF, SET and USE: between two others, and alone
OtherExtraChoiceLines ==
    { ChoiceLine("D", "Buy", <<"STEP_", "2">>,
                 <<"IF", " ", "key", ";", " ", "GIVE", " ", "lamp", ";", " ",
                   "SET", " ", "inventory", ":", "lamp", ":", "1">>),
      ChoiceLine("D", "Beg", <<"STEP_", "2">>, <<"lamp">>) }

\* the lines a [CHOICES] block is made of, a blank line among them
ChoiceLineAlphabet ==
    WellFormedChoiceLines \cup MalformedChoiceLines \cup OtherExtraChoiceLines
    \cup { <<" ">> }

\* a text with one [CHOICES] block of the given lines in STEP_1, a STEP_2
\* without choices, and with or without a [MAIN_MENU]
TextOf(withMenu, choiceLines) ==
    Join(<< Tag(<<"GAME_NAME">>), <<"Game">> >>
         \o (IF withMenu THEN << Tag(<<"MAIN_MENU">>), <<"Start New Game">> >> ELSE <<>>)
         \o StepBlock("1", <<"Start.">>, choiceLines)
         \o StepBlock("2", <<"End.">>, <<>>))

\* the sequences of choice lines a [CHOICES] block is given
ChoiceBlocks == UNION { [1..n -> ChoiceLineAlphabet] : n \in 0..MaxChoiceLines }

\* a section with one line of content, a blank line, or no section at all
Section(tag, how, line) ==
    CASE how = "present" -> << Tag(tag), line >>
      [] how = "blank" -> << Tag(tag), <<" ">> >>
      [] OTHER -> <<>>

Hows == {"present", "blank", "absent"}

\* no stray tag, or a stray [NARRATIVE] or [CHOICES] tag and where it stands:
\* before any section, while [ENDING_SUCCESS] is the current section, after
\* [/STEP_1]
Strays ==
    {<<>>} \cup ({<<"NARRATIVE">>, <<"CHOICES">>} \X {"start", "section", "closed"})

\* a text with or without a game name, a main menu, a [STEP_1] block and its
\* narrative, and with at most one stray sub-section tag
TextSkeleton(name, menu, withStep, narrative, stray) ==
    LET StrayAt(s, where) ==
            IF s # <<>> /\ s[2] = where THEN << Tag(s[1]) >> ELSE <<>>
    IN
    Join(StrayAt(stray, "start")
         \o Section(<<"GAME_NAME">>, name, <<"Game">>)
         \o Section(<<"MAIN_MENU">>, menu, <<"Start New Game">>)
         \o (IF stray # <<>> /\ stray[2] = "section"
             THEN << Tag(<<"ENDING_", "SUCCESS">>), <<"Won.">> >> ELSE <<>>)
         \o StrayAt(stray, "section")
         \o (IF withStep
             THEN << Tag(<<"STEP_", "1">>) >>
                  \o (IF narrative = "absent" THEN <<>>
                      ELSE Section(<<"NARRATIVE">>, narrative, <<"Hi.">>)
                           \o << Tag(<<"/", "NARRATIVE">>) >>)
                  \o << Tag(<<"/", "STEP_", "1">>) >>
             ELSE <<>>)
         \o StrayAt(stray, "closed"))

\* `chance: <chance>, outcome: STEP_2`
EventLine(chance) ==
    <<"chance", ":", " ", chance, ",", " ", "outcome", ":", " ", "STEP_", "2">>

\* lines of a [RANDOM_EVENT] block with both fields (the chance a number
\* above zero, zero in two spellings, the outcome written first), with one
\* field only, with a chance that is no number, with no field, and blank
EventLinesBoth ==
    { EventLine("0.5"), EventLine("0"), EventLine("0.0"),
      <<"outcome", ":", " ", "STEP_", "3", ",", " ", "chance", ":", " ", "1.0">> }

EventLinesMissing ==
    { <<"chance", ":", " ", "0.5">>, <<"outcome", ":", " ", "STEP_", "2">>,
      <<"soon">> }

\* the sequences of lines a [RANDOM_EVENT] block is given
EventBlocks ==
    UNION { [1..n -> EventLinesBoth \cup EventLinesMissing
                        \cup { EventLine("x"), <<" ">> }] : n \in 0..MaxEventLines }

\* a complete text that ends with a [RANDOM_EVENT] block of the given lines
TextEvents(eventLines) ==
    Join(<< Tag(<<"GAME_NAME">>), <<"Game">>, Tag(<<"MAIN_MENU">>), <<"Start New Game">> >>
         \o StepBlock("1", <<"Start.">>, <<>>)
         \o << Tag(<<"RANDOM_EVENT">>) >> \o eventLines
         \o << Tag(<<"/", "RANDOM_EVENT">>) >>)

\* the texts parseFile is applied to
Texts ==
    {TextTest, TextQuest, TextSide}
    \cup { TextEvents(eventLines) : eventLines \in EventBlocks }
    \cup { TextOf(withMenu, choiceLines) :
             withMenu \in BOOLEAN, choiceLines \in ChoiceBlocks }
    \cup { TextSkeleton(name, menu, withStep, narrative, stray) :
             name \in Hows, menu \in Hows, withStep \in BOOLEAN,
             narrative \in Hows, stray \in Strays }

\* ------------------------------------------------------------------------
\* Calls of the InventoryManager methods
\* ------------------------------------------------------------------------
\* the item names a caller passes; the empty name is falsy
ItemNames == {<<>>, <<"key">>, <<"lamp">>}

\* the quantities a caller passes
Quantities == (0 - 1)..MaxQty

\* the condition texts: an item, an item with a quantity, an item with a
\* quantity that is no number, a blank text, the empty text
ConditionTexts ==
    { <<item>> : item \in {"key", "lamp"} }
    \cup { <<item, ":", q>> : item \in {"key", "lamp"}, q \in {"0", "1", "2", "3", "x"} }
    \cup { <<" ">>, <<>> }

\* the consequence texts: USE with and without a quantity, SET inventory,
\* and texts that are neither
OtherConsequenceTexts ==
    { <<>>, <<" ">>, <<"USE">>, <<"GIVE", " ", "key">>,
      <<"SET", " ", "stats", ":", "key", ":", "1">>,
      <<"SET", " ", "key", ":", "1">>,
      <<"SET", " ", "my", " ", "inventory", ":", "key", ":", "1">> }

ConsequenceTexts ==
    { <<"USE", " ", item>> : item \in {"key", "lamp"} }
    \cup { <<"USE", " ", item, ":", q>> : item \in {"key", "lamp"}, q \in {"0", "1", "2", "3"} }
    \cup { <<"SET", " ", "inventory", ":", item, ":", q>> :
             item \in {"key", "lamp"}, q \in {"-2", "-1", "0", "1", "2", "3"} }
    \cup OtherConsequenceTexts

\* a call: the method, its arguments, the inventory before it, what it returned
Call(op, name, qty, text, before, returned) ==
    [op |-> op, name |-> name, qty |-> qty, text |-> text, before |-> before,
     returned |-> returned]

NoCall == Call("none", <<>>, 0, <<>>, EmptyInventory, FALSE)

\* parseFile's locals before the first line: [ps, lines], ps as processBuffer
\* takes it and lines the number of lines taken
ScanStart ==
    [ps |-> [gameData |-> EmptyGameData, currentSection |-> <<>>,
             currentSubSection |-> <<>>, currentContentBuffer |-> <<>>,
             ok |-> TRUE, error |-> NoError],
     lines |-> 0]

\* the lines the loop is given one at a time: the tags that open and close a
\* step and its sub-sections, a top-level tag, and two lines of content
ScanLines ==
    { Tag(<<"STEP_", "1">>), Tag(<<"/", "STEP_", "1">>),
      Tag(<<"NARRATIVE">>), Tag(<<"/", "NARRATIVE">>),
      Tag(<<"CHOICES">>), Tag(<<"/", "CHOICES">>),
      Tag(<<"GAME_NAME">>), ChoiceLine("A", "Go", <<"STEP_", "2">>, <<>>),
      <<"Hi.">> }

\* before parseFile has returned or thrown
NotParsed == [done |-> FALSE, ok |-> FALSE, doc |-> EmptyGameData, error |-> NoError]

\* ------------------------------------------------------------------------
\* State
\* ------------------------------------------------------------------------
VARIABLES
    gameData,               \* menuHandler.js: the parsed document + currentStep
    currentMenuItems,       \* menuHandler.js
    currentMenuType,        \* menuHandler.js
    selectedMenuItemIndex,  \* menuHandler.js (0-based)
    isGoingBack,            \* menuHandler.js
    storyHistory,           \* gameState.js
    currentHistoryIndex,    \* gameState.js (0-based, -1 when empty)
    userName,               \* gameState.js
    inventory,              \* inventoryManager.js: globalInventoryManager.inventory
    overlayVisible,         \* #overlay-menu has class `visible`
    timers,                 \* pending setTimeout callbacks, in the order they were set
    nameInputs,             \* pending askUserName inputs present in the terminal
    fileInputs,             \* pending .sadv file pickers
    terminal,               \* what the last handler rendered: [kind, text]
    burst,                  \* user events handled since a timer has been pending
    content,                \* the text handed to parseFile
    parsed,                 \* what parseFile made of it
    call,                   \* the last call of an InventoryManager method
    scan,                   \* parseFile's locals during its loop over the lines
    ev,                     \* observation: the last event and the file it read or wrote
    redo                    \* observation: progress of select / go back / select again

vars == <<gameData, currentMenuItems, currentMenuType, selectedMenuItemIndex,
          isGoingBack, storyHistory, currentHistoryIndex, userName, inventory,
          overlayVisible, timers, nameInputs, fileInputs, terminal, burst,
          content, parsed, call, scan, ev, redo>>

\* the program state as one record, handed through the handlers
State ==
    [gameData |-> gameData, currentMenuItems |-> currentMenuItems,
     currentMenuType |-> currentMenuType,
     selectedMenuItemIndex |-> selectedMenuItemIndex, isGoingBack |-> isGoingBack,
     storyHistory |-> storyHistory, currentHistoryIndex |-> currentHistoryIndex,
     userName |-> userName, inventory |-> inventory,
     overlayVisible |-> overlayVisible, timers |-> timers,
     nameInputs |-> nameInputs, fileInputs |-> fileInputs, terminal |-> terminal]

Screen(kind, text) == [kind |-> kind, text |-> text]

\* ------------------------------------------------------------------------
\* gameState.js
\* ------------------------------------------------------------------------
\* variant: the entries beyond the position are kept
pushStoryToHistory_keepFuture(s, story) ==
    LET hist == Append(s.storyHistory, story)
    IN [s EXCEPT !.storyHistory = hist, !.currentHistoryIndex = Len(hist) - 1]

pushStoryToHistory(s, story) ==
    LET kept == IF s.currentHistoryIndex < Len(s.storyHistory) - 1
                THEN SubSeq(s.storyHistory, 1, s.currentHistoryIndex + 1)
                ELSE s.storyHistory
        hist == Append(kept, story)
    IN [s EXCEPT !.storyHistory = hist, !.currentHistoryIndex = Len(hist) - 1]

canGoBack(s) == s.currentHistoryIndex > 0

\* variant: the position is moved back without the test
goBackInHistory_unguarded(s) == [s EXCEPT !.currentHistoryIndex = @ - 1]

\* the state after goBackInHistory
goBackInHistory(s) ==
    IF s.currentHistoryIndex > 0
    THEN [s EXCEPT !.currentHistoryIndex = @ - 1] ELSE s

\* the value goBackInHistory returns (Null for null and for an absent entry)
goBackResult(s) ==
    IF s.currentHistoryIndex > 0 /\ s.currentHistoryIndex <= Len(s.storyHistory)
    THEN s.storyHistory[s.currentHistoryIndex] ELSE Null

\* variant: the entries are dropped and the position is kept
clearStoryHistory_keepingIndex(s) == [s EXCEPT !.storyHistory = <<>>]

clearStoryHistory(s) ==
    [s EXCEPT !.storyHistory = <<>>, !.currentHistoryIndex = 0 - 1]

setUserName(s, name) == [s EXCEPT !.userName = name]

getSerializableGameState(s, currentStep) ==
    SaveObject(s.userName, s.storyHistory, s.currentHistoryIndex, currentStep,
               s.inventory)

\* `piGameSavestate_${gameName}_${slot}`
SavestateKey(gameName, slot) == <<"piGameSavestate_", gameName, "_", slot>>

\* loadGameState(gameName, slot): restores from localStorage when the key exists
loadGameState(s, gameName, slot) ==
    LET key == SavestateKey(gameName, slot) IN
    IF key \in DOMAIN localStorage
    THEN LET obj == localStorage[key] IN
         [s EXCEPT !.userName = obj.userName,
                   !.storyHistory = obj.storyHistory,
                   !.currentHistoryIndex = obj.currentHistoryIndex,
                   !.inventory = NewInventoryManager(obj.inventory.inventory)]
    ELSE s

\* initializeInventory(gameData)
initializeInventory(s, data) ==
    [s EXCEPT !.inventory = NewInventoryManager(data.inventory)]

\* ------------------------------------------------------------------------
\* terminal.js / DOM
\* ------------------------------------------------------------------------
\* addNewPromptLine(terminalElement): appends a prompt line.  The function
\* takes one parameter: the message some callers pass as a second argument
\* is not rendered, and is kept here only to show the call as it is written
addNewPromptLine(s, message) ==
    [s EXCEPT !.terminal = Screen("prompt", <<>>)]

\* terminal.innerHTML = '': a pending name input is removed with the rest
clearTerminal(s) ==
    [s EXCEPT !.nameInputs = 0, !.terminal = Screen("blank", <<>>)]

\* setTimeout(cb, delay)
setTimeout(s, cb, delay) ==
    [s EXCEPT !.timers = Append(@, [cb |-> cb, delay |-> delay])]

\* ------------------------------------------------------------------------
\* menuHandler.js
\* ------------------------------------------------------------------------
\* displayMainMenu(terminal, data): the menu itself appears in the timer
displayMainMenu(s, data) ==
    setTimeout([s EXCEPT !.gameData = data], "mainMenu", 150)

\* the 150 ms callback of displayMainMenu
mainMenuCallback(s) ==
    LET s1 == clearStoryHistory(clearTerminal(s)) IN
    [s1 EXCEPT !.currentMenuItems = s1.gameData.mainMenuItems,
               !.currentMenuType = "main",
               !.selectedMenuItemIndex = 0,
               !.terminal = Screen("mainMenu", <<>>)]

\* the menu items of a step's choices, with the back option when canGoBack()
StoryMenuItems(s, step) ==
    LET name == s.userName
        items == [i \in 1..Len(step.choices) |->
                    <<step.choices[i].label, ") ">> \o
                    (IF name # <<>> THEN ReplaceUser(step.choices[i].description, name)
                     ELSE step.choices[i].description)]
    IN IF canGoBack(s)
       THEN Append(items, <<LetterAfterA(Len(items)), ") ", "Return to the previous page">>)
       ELSE items

displayStoryAndMenu(s, stepKey) ==
    LET s1 == IF ~s.isGoingBack /\ s.gameData.currentStep # Null
              THEN pushStoryToHistory(s, s.gameData.currentStep) ELSE s
        \* lines 110-121: the flag, the step, the deferred clear of the terminal
        s2 == setTimeout([s1 EXCEPT !.isGoingBack = FALSE,
                                    !.gameData.currentStep = stepKey], "wipe", 150)
    IN IF stepKey \notin DOMAIN s2.gameData.steps
       THEN addNewPromptLine(s2, <<"Error: Step ", stepKey, " not found.">>)
       ELSE LET step == s2.gameData.steps[stepKey]
                narrative == IF s2.userName # <<>>
                             THEN ReplaceUser(step.narrative, s2.userName)
                             ELSE step.narrative
            IN IF Len(step.choices) > 0
               THEN [s2 EXCEPT !.currentMenuItems = StoryMenuItems(s2, step),
                               !.currentMenuType = "story_choices",
                               !.selectedMenuItemIndex = 0,
                               !.terminal = Screen("story", narrative)]
               ELSE [addNewPromptLine(s2, <<>>) EXCEPT
                               !.currentMenuItems = <<>>,
                               !.currentMenuType = "",
                               !.terminal = Screen("story", narrative)]

\* variant: the options menu clears the history as the main menu does
displayOptionsMenu_clearing(s) ==
    [clearStoryHistory(clearTerminal(s)) EXCEPT
        !.currentMenuItems = optionsMenuItems,
        !.currentMenuType = "options",
        !.selectedMenuItemIndex = 0,
        !.terminal = Screen("options", <<>>)]

displayOptionsMenu(s) ==
    [clearTerminal(s) EXCEPT !.currentMenuItems = optionsMenuItems,
                             !.currentMenuType = "options",
                             !.selectedMenuItemIndex = 0,
                             !.terminal = Screen("options", <<>>)]

displayFontSizeMenu(s) ==
    [clearTerminal(s) EXCEPT !.currentMenuItems = fontSizeMenuItems,
                             !.currentMenuType = "font_size",
                             !.selectedMenuItemIndex = 0,
                             !.terminal = Screen("font_size", <<>>)]

displayFontColorMenu(s) ==
    [clearTerminal(s) EXCEPT !.currentMenuItems = fontColorMenuItems,
                             !.currentMenuType = "font_color",
                             !.selectedMenuItemIndex = 0,
                             !.terminal = Screen("font_color", <<>>)]

\* currentMenuItems[selectedMenuItemIndex]
selectedItem(s) == s.currentMenuItems[s.selectedMenuItemIndex + 1]

\* variant: the callback shows the step that is current when it runs
startGameCallback_currentStep(s) ==
    IF s.gameData.currentStep # Null
    THEN displayStoryAndMenu(s, s.gameData.currentStep) ELSE s

\* the 50 ms callback of 'Start New Game'
startGameCallback(s) == displayStoryAndMenu(s, "1")

\* 'Start New Game' after the optional name entry: lines 250-257
startNewGameContinuation(s) ==
    setTimeout([s EXCEPT !.gameData.currentStep = "1"], "startGame", 50)

\* Enter in the main menu
handleMainMenu(s) ==
    LET item == selectedItem(s) IN
    CASE item = <<"Start New Game">> ->
            IF s.gameData.askForName
            THEN [s EXCEPT !.nameInputs = @ + 1,
                           !.terminal = Screen("namePrompt", <<>>)]
            ELSE startNewGameContinuation(s)
      [] item = <<"Load Game">> -> [s EXCEPT !.fileInputs = @ + 1]
      [] item = <<"Options">> -> displayOptionsMenu(s)
      [] item = <<"Exit">> ->
            [addNewPromptLine(clearTerminal(s), <<>>) EXCEPT !.currentMenuItems = <<>>]
      [] OTHER -> addNewPromptLine(s, <<>>)

\* Enter in the options menu
handleOptionsMenu(s) ==
    LET item == selectedItem(s) IN
    CASE item = <<"Font Size">> -> displayFontSizeMenu(s)
      [] item = <<"Font Color">> -> displayFontColorMenu(s)
      [] item = <<"Back">> ->
            [addNewPromptLine(clearTerminal(s), <<>>) EXCEPT !.currentMenuItems = <<>>]
      [] OTHER -> addNewPromptLine(s, <<>>)

\* Enter in the font size and font colour menus: every item, `Back` too,
\* returns to the options menu (the style of the terminal is not modelled)
handleFontMenu(s) == displayOptionsMenu(s)

\* `target.replace('STEP_', '')`
targetStepOf(target) ==
    IF target # <<>> /\ Head(target) = "STEP_" THEN Tail(target) ELSE target

\* `targetStep.startsWith('ENDING_')`
IsEndingTarget(targetStep) == targetStep # <<>> /\ Head(targetStep) = "ENDING_"

\* `targetStep.replace('ENDING_', '').toLowerCase()`
endingTypeOf(targetStep) ==
    LET kind == targetStep[2] IN
    CASE kind = "SUCCESS" -> "success"
      [] kind = "FAILURE" -> "failure"
      [] kind = "NEUTRAL" -> "neutral"
      [] OTHER -> "unknown"

\* variant: every ending shows the success text
endingTextOf_success(data, endingType) == data.endings.success

\* gameData.endings[endingType]
endingTextOf(data, endingType) ==
    IF endingType \in DOMAIN data.endings THEN data.endings[endingType] ELSE <<>>

\* `currentStep && currentStep.choices && currentStep.choices[choiceIndex]`
HasSelectedChoice(s) ==
    /\ s.gameData.currentStep \in DOMAIN s.gameData.steps
    /\ s.selectedMenuItemIndex + 1
          \in 1..Len(s.gameData.steps[s.gameData.currentStep].choices)

SelectedChoice(s) ==
    s.gameData.steps[s.gameData.currentStep].choices[s.selectedMenuItemIndex + 1]

\* variant: the choice's consequences are applied in order
RECURSIVE applyConsequences(_, _)
applyConsequences(inv, consequences) ==
    IF consequences = <<>> THEN inv
    ELSE applyConsequences(applyInventoryConsequence(inv, Head(consequences)),
                           Tail(consequences))

inventoryAfterChoice_applied(inv, choice) ==
    applyConsequences(inv, choice.consequences)

\* the inventory after a choice has been taken: the handler neither checks
\* the choice's conditions nor applies its consequences
inventoryAfterChoice(inv, choice) == inv

\* the `Return to the previous page` branch, lines 410-417 and 424-431
returnToPreviousPage(s) ==
    LET previousStep == goBackResult(s)
        s1 == [goBackInHistory(s) EXCEPT !.isGoingBack = TRUE]
    IN IF previousStep # Null
       THEN displayStoryAndMenu(s1, previousStep)
       ELSE addNewPromptLine(s1, <<"No previous page to return to.">>)

\* Enter in a step's choice menu
handleStoryChoices(s) ==
    IF HasSelectedChoice(s)
    THEN LET choice == SelectedChoice(s)
             targetStep == targetStepOf(choice.target)
             s0 == [s EXCEPT !.inventory = inventoryAfterChoice(@, choice)]
         IN IF IsEndingTarget(targetStep)
            THEN LET endingType == endingTypeOf(targetStep)
                     endingText == endingTextOf(s0.gameData, endingType)
                 IN IF endingText # <<>>
                    THEN [clearTerminal(s0) EXCEPT
                             !.currentMenuItems = endingMenuItems,
                             !.currentMenuType = "ending_options",
                             !.selectedMenuItemIndex = 0,
                             !.terminal = Screen("ending", endingText)]
                    ELSE addNewPromptLine(s0, <<"Error: Ending ", endingType, " not found.">>)
            ELSE displayStoryAndMenu([s0 EXCEPT !.gameData.currentStep = targetStep[1]],
                                     targetStep[1])
    ELSE IF Includes(selectedItem(s), "Return to the previous page")
    THEN returnToPreviousPage(s)
    ELSE addNewPromptLine(s, <<"Invalid choice.">>)

\* Enter in the menu shown under an ending
handleEndingOptions(s) ==
    LET item == selectedItem(s) IN
    CASE item = <<"Return to the previous Page">> -> returnToPreviousPage(s)
      [] item = <<"Quit to command prompt">> ->
            [addNewPromptLine(clearTerminal(s), <<>>) EXCEPT
                 !.currentMenuItems = <<>>, !.currentMenuType = ""]
      [] OTHER -> addNewPromptLine(s, <<"Invalid choice.">>)

\* handleMenuNavigation for the Enter key (currentMenuItems is not empty)
handleMenuNavigationEnter(s) ==
    CASE s.currentMenuType = "main" -> handleMainMenu(s)
      [] s.currentMenuType = "options" -> handleOptionsMenu(s)
      [] s.currentMenuType \in {"font_size", "font_color"} -> handleFontMenu(s)
      [] s.currentMenuType = "story_choices" -> handleStoryChoices(s)
      [] s.currentMenuType = "ending_options" -> handleEndingOptions(s)
      [] OTHER -> s

\* toggleOverlayMenu(terminal): Escape, and the first statement of each button
toggleOverlayMenu(s) ==
    IF s.overlayVisible
    THEN LET s1 == [s EXCEPT !.overlayVisible = FALSE] IN
         IF s1.gameData.currentStep # Null
         THEN displayStoryAndMenu(s1, s1.gameData.currentStep)
         ELSE addNewPromptLine(s1, <<>>)
    ELSE IF s.gameData.currentStep = Null THEN s
         ELSE [s EXCEPT !.overlayVisible = TRUE]

\* the file saveQuitButton.onclick downloads
savedFile(s) == SaveFile(getSerializableGameState(s, s.gameData.currentStep))

\* saveQuitButton.onclick: the file is serialized and downloaded, then the
\* overlay is toggled and the main menu is displayed
saveQuitClick(s) ==
    LET s1 == toggleOverlayMenu(s)
    IN displayMainMenu(s1, s1.gameData)

\* returnButton.onclick
returnClick(s) == toggleOverlayMenu(s)

\* quitWithoutSavingButton.onclick
quitWithoutSavingClick(s) ==
    LET s1 == addNewPromptLine(clearTerminal(toggleOverlayMenu(s)), <<>>)
        s2 == clearStoryHistory(s1)
    IN [s2 EXCEPT !.currentMenuItems = <<>>, !.currentMenuType = "",
                  !.gameData.currentStep = Null]

\* reader.onload of the `Load Game` picker, with what precedes it in the
\* change handler (no file, wrong extension)
saveFileChosen(s, file) ==
    LET s0 == [s EXCEPT !.fileInputs = @ - 1] IN
    IF ~file.picked THEN addNewPromptLine(s0, <<>>)
    ELSE IF file.ext # "sadv"
    THEN addNewPromptLine(s0, <<"Error: Incorrect file type. Please select a .sadv file.">>)
    ELSE IF ~file.json
    THEN addNewPromptLine(s0, <<"Error parsing save file">>)
    ELSE LET gameState == file.value
             \* loadGameState(gameState): the object arrives as gameName,
             \* and slot is undefined
             s1 == loadGameState(s0, "[object Object]", "undefined")
         IN IF gameState.currentStep # Null
            THEN displayStoryAndMenu(
                     [s1 EXCEPT !.gameData.currentStep = gameState.currentStep],
                     gameState.currentStep)
            ELSE addNewPromptLine(s1, <<"Loaded game state, but no current step found.">>)

\* userInput.js: Enter in the name input resolves the promise; the rest of
\* 'Start New Game' runs as a microtask before the event reaches the terminal
nameEntered(s, name) ==
    startNewGameContinuation(
        setUserName([s EXCEPT !.nameInputs = @ - 1], name))

\* ------------------------------------------------------------------------
\* commandHandler.js
\* ------------------------------------------------------------------------
\* displayGameIntro(terminal, gameName): clears the terminal now and again
\* after a second (the caller does not wait for it)
displayGameIntro(s) == setTimeout(clearTerminal(s), "wipe", 1000)

\* `load`: the .adv picker, the reader and the 800 ms loading delay
loadCommand(s) == setTimeout(s, "parse", 800)

\* the 800 ms callback: parseFile, initializeInventory, intro, main menu
parseCallback(s, file) ==
    IF ~file.ok THEN addNewPromptLine(s, <<"Error parsing .adv file">>)
    ELSE LET data == file.doc
             s1 == displayGameIntro(initializeInventory(s, data))
             data1 == IF s1.userName # <<>>
                      THEN [data EXCEPT !.mainMenuItems =
                              [i \in 1..Len(data.mainMenuItems) |->
                                  ReplaceUser(data.mainMenuItems[i], s1.userName)]]
                      ELSE data
         IN displayMainMenu(s1, data1)

\* `options`
optionsCommand(s) == displayOptionsMenu(s)

\* ------------------------------------------------------------------------
\* script.js: the terminal's keydown listener
\* ------------------------------------------------------------------------
\* Enter reaching the terminal: the menu when one is active, else the command
\* line (an empty or unknown command only prints a new prompt)
terminalEnter(s) ==
    IF Len(s.currentMenuItems) > 0 THEN handleMenuNavigationEnter(s)
    ELSE addNewPromptLine(s, <<>>)

arrowUp(s) ==
    [s EXCEPT !.selectedMenuItemIndex =
        (@ - 1 + Len(s.currentMenuItems)) % Len(s.currentMenuItems)]

arrowDown(s) ==
    [s EXCEPT !.selectedMenuItemIndex = (@ + 1) % Len(s.currentMenuItems)]

\* A timer may run when no timer set before it is due earlier or at the same
\* time: one set earlier with a delay not larger runs first
TimerReady(s, i) ==
    /\ i \in 1..Len(s.timers)
    /\ \A j \in 1..(i - 1) : s.timers[j].delay > s.timers[i].delay

RemoveTimer(s, i) ==
    [s EXCEPT !.timers = SubSeq(@, 1, i - 1) \o SubSeq(@, i + 1, Len(@))]

\* ------------------------------------------------------------------------
\* Observation of events (not program state)
\* ------------------------------------------------------------------------
\* what an Enter in a step's choice menu selects
EnterKind(s) ==
    IF s.currentMenuType # "story_choices" \/ Len(s.currentMenuItems) = 0 THEN "menu"
    ELSE IF HasSelectedChoice(s)
         THEN (IF IsEndingTarget(targetStepOf(SelectedChoice(s).target))
               THEN "ending" ELSE "forward")
    ELSE IF Includes(selectedItem(s), "Return to the previous page") THEN "back"
    ELSE "invalid"

NoRedo == [phase |-> 0, step |-> Null, choice |-> 0, reached |-> Null,
           inv |-> EmptyInventory]

\* phase 1: choice `choice` of step `step` was taken and reached `reached`;
\* phase 2: the next event went back, with inventory `inv` just before it;
\* phase 3: the next event took the same choice of the same step again
\* (moving the highlight with the arrow keys and the deferred clearing of
\* the terminal in between do not count, nor
\* does opening and closing the overlay between the choice and going back)
RedoNext(op, s, s2) ==
    LET kind == IF op = "enter" THEN EnterKind(s) ELSE "other" IN
    CASE op \in {"arrow", "wipeTimer"} -> redo
      [] op \in {"escape", "return"} /\ redo.phase = 1 -> redo
      [] kind = "forward" ->
            IF /\ redo.phase = 2
               /\ redo.step = s.gameData.currentStep
               /\ redo.choice = s.selectedMenuItemIndex
            THEN [redo EXCEPT !.phase = 3]
            ELSE [phase |-> 1, step |-> s.gameData.currentStep,
                  choice |-> s.selectedMenuItemIndex,
                  reached |-> s2.gameData.currentStep, inv |-> EmptyInventory]
      [] kind = "back" /\ redo.phase = 1 /\ goBackResult(s) # Null ->
            [redo EXCEPT !.phase = 2, !.inv = s.inventory]
      [] OTHER -> NoRedo

\* ------------------------------------------------------------------------
\* Init and the events
\* ------------------------------------------------------------------------
\* the page after DOMContentLoaded
InitSession ==
    /\ gameData = EmptyGameData
    /\ currentMenuItems = <<>>
    /\ currentMenuType = "main"
    /\ selectedMenuItemIndex = 0
    /\ isGoingBack = FALSE
    /\ storyHistory = <<>>
    /\ currentHistoryIndex = 0 - 1
    /\ userName = <<>>
    /\ inventory = EmptyInventory
    /\ overlayVisible = FALSE
    /\ timers = <<>>
    /\ nameInputs = 0
    /\ fileInputs = 0
    /\ terminal = Screen("prompt", <<>>)
    /\ burst = 0
    /\ ev = [op |-> "init", dropped |-> 0, file |-> NoFile]
    /\ redo = NoRedo

Init ==
    /\ InitSession
    /\ content = <<>>
    /\ parsed = NotParsed
    /\ call = NoCall
    /\ scan = ScanStart

TimerOps == {"startTimer", "mainMenuTimer", "parseTimer", "wipeTimer"}

\* one event: the handler's result s2 becomes the state, within the bounds
Apply(op, s2, file) ==
    /\ op \in TimerOps \/ timers = <<>> \/ burst < MaxBurst
    /\ Len(s2.storyHistory) <= MaxHist
    /\ Len(s2.timers) <= MaxTimers
    /\ s2.nameInputs <= MaxPending
    /\ s2.fileInputs <= MaxPending
    /\ gameData' = s2.gameData
    /\ currentMenuItems' = s2.currentMenuItems
    /\ currentMenuType' = s2.currentMenuType
    /\ selectedMenuItemIndex' = s2.selectedMenuItemIndex
    /\ isGoingBack' = s2.isGoingBack
    /\ storyHistory' = s2.storyHistory
    /\ currentHistoryIndex' = s2.currentHistoryIndex
    /\ userName' = s2.userName
    /\ inventory' = s2.inventory
    /\ overlayVisible' = s2.overlayVisible
    /\ timers' = s2.timers
    /\ nameInputs' = s2.nameInputs
    /\ fileInputs' = s2.fileInputs
    /\ terminal' = s2.terminal
    /\ burst' = IF s2.timers = <<>> \/ timers = <<>> THEN 0
                ELSE IF op \in TimerOps THEN burst ELSE burst + 1
    /\ ev' = [op |-> IF op = "enter" THEN EnterKind(State) ELSE op,
              dropped |-> IF op = "enter" /\ EnterKind(State) = "forward"
                          THEN Len(storyHistory) - 1 - currentHistoryIndex ELSE 0,
              file |-> file]
    /\ redo' = RedoNext(op, State, s2)
    /\ UNCHANGED <<content, parsed, call, scan>>

\* the browser's file dialog is modal: while it is open the page receives
\* neither keys nor clicks
DialogOpen == fileInputs > 0

\* the terminal has the keyboard: the overlay, when shown, takes the focus
TerminalFocused == ~overlayVisible /\ ~DialogOpen

MenuActive == Len(currentMenuItems) > 0

ArrowUp == TerminalFocused /\ MenuActive /\ Apply("arrow", arrowUp(State), NoFile)

ArrowDown == TerminalFocused /\ MenuActive /\ Apply("arrow", arrowDown(State), NoFile)

EnterMainMenu ==
    /\ TerminalFocused /\ MenuActive /\ currentMenuType = "main"
    /\ Apply("enter", handleMenuNavigationEnter(State), NoFile)

EnterOptionsMenu ==
    /\ TerminalFocused /\ MenuActive /\ currentMenuType = "options"
    /\ Apply("enter", handleMenuNavigationEnter(State), NoFile)

EnterFontMenu ==
    /\ TerminalFocused /\ MenuActive /\ currentMenuType \in {"font_size", "font_color"}
    /\ Apply("enter", handleMenuNavigationEnter(State), NoFile)

EnterStoryChoice ==
    /\ TerminalFocused /\ MenuActive /\ currentMenuType = "story_choices"
    /\ Apply("enter", handleMenuNavigationEnter(State), NoFile)

EnterEndingOption ==
    /\ TerminalFocused /\ MenuActive /\ currentMenuType = "ending_options"
    /\ Apply("enter", handleMenuNavigationEnter(State), NoFile)

CommandLoad ==
    TerminalFocused /\ ~MenuActive /\ Apply("load", loadCommand(State), NoFile)

CommandOptions ==
    TerminalFocused /\ ~MenuActive /\ Apply("options", optionsCommand(State), NoFile)

\* Enter in the name input: the input's listener, then the terminal's
NameEntered(name) ==
    /\ TerminalFocused /\ nameInputs > 0
    /\ Apply("name", terminalEnter(nameEntered(State, name)), NoFile)

SaveFileChosen(file) ==
    /\ fileInputs > 0
    /\ Apply("file", saveFileChosen(State, file), file)

\* the file dialog is dismissed: no `change` event, the listener never runs
FileDialogCancelled ==
    /\ fileInputs > 0
    /\ Apply("cancel", [State EXCEPT !.fileInputs = @ - 1], NoFile)

EscapeKey == ~DialogOpen /\ Apply("escape", toggleOverlayMenu(State), NoFile)

ClickReturn == overlayVisible /\ Apply("return", returnClick(State), NoFile)

ClickSaveQuit ==
    overlayVisible /\ Apply("saveQuit", saveQuitClick(State), savedFile(State))

ClickQuitWithoutSaving ==
    overlayVisible /\ Apply("quit", quitWithoutSavingClick(State), NoFile)

StartGameTimer(i) ==
    /\ TimerReady(State, i) /\ timers[i].cb = "startGame"
    /\ Apply("startTimer", startGameCallback(RemoveTimer(State, i)), NoFile)

MainMenuTimer(i) ==
    /\ TimerReady(State, i) /\ timers[i].cb = "mainMenu"
    /\ Apply("mainMenuTimer", mainMenuCallback(RemoveTimer(State, i)), NoFile)

WipeTimer(i) ==
    /\ TimerReady(State, i) /\ timers[i].cb = "wipe"
    /\ Apply("wipeTimer", clearTerminal(RemoveTimer(State, i)), NoFile)

ParseTimer(i, file) ==
    /\ TimerReady(State, i) /\ timers[i].cb = "parse"
    /\ Apply("parseTimer", parseCallback(RemoveTimer(State, i), file), NoFile)

Next ==
    \/ ArrowUp
    \/ ArrowDown
    \/ EnterMainMenu
    \/ EnterOptionsMenu
    \/ EnterFontMenu
    \/ EnterStoryChoice
    \/ EnterEndingOption
    \/ CommandLoad
    \/ CommandOptions
    \/ \E name \in Names : NameEntered(name)
    \/ \E file \in SaveFiles : SaveFileChosen(file)
    \/ FileDialogCancelled
    \/ EscapeKey
    \/ ClickReturn
    \/ ClickSaveQuit
    \/ ClickQuitWithoutSaving
    \/ \E i \in 1..Len(timers) : StartGameTimer(i)
    \/ \E i \in 1..Len(timers) : MainMenuTimer(i)
    \/ \E i \in 1..Len(timers) : WipeTimer(i)
    \/ \E i \in 1..Len(timers), file \in AdvFiles : ParseTimer(i, file)

Spec == Init /\ [][Next]_vars

\* ------------------------------------------------------------------------
\* parseFile applied to a text
\* ------------------------------------------------------------------------
InitParse ==
    /\ InitSession
    /\ content \in Texts
    /\ parsed = NotParsed
    /\ call = NoCall
    /\ scan = ScanStart

ParseFile ==
    /\ ~parsed.done
    /\ \E r \in {parseFile(content)} :
          parsed' = [done |-> TRUE, ok |-> r.ok, doc |-> r.doc, error |-> r.error]
    /\ UNCHANGED <<gameData, currentMenuItems, currentMenuType,
                   selectedMenuItemIndex, isGoingBack, storyHistory,
                   currentHistoryIndex, userName, inventory, overlayVisible,
                   timers, nameInputs, fileInputs, terminal, burst, content,
                   call, scan, ev, redo>>

NextParse == ParseFile

SpecParse == InitParse /\ [][NextParse]_vars

\* ------------------------------------------------------------------------
\* parseFile's loop over the lines, one line at a time
\* ------------------------------------------------------------------------
\* one turn of `for (const line of lines)`; nothing is scanned once a line
\* has thrown
ScanLine ==
    /\ scan.lines < MaxScan
    /\ scan.ps.ok
    /\ \E line \in ScanLines :
          \E p \in {parseLine(scan.ps, line)} :
              scan' = [ps |-> p, lines |-> scan.lines + 1]
    /\ UNCHANGED <<gameData, currentMenuItems, currentMenuType,
                   selectedMenuItemIndex, isGoingBack, storyHistory,
                   currentHistoryIndex, userName, inventory, overlayVisible,
                   timers, nameInputs, fileInputs, terminal, burst, content,
                   parsed, call, ev, redo>>

SpecScan == Init /\ [][ScanLine]_vars

\* ------------------------------------------------------------------------
\* The InventoryManager methods called one after the other
\* ------------------------------------------------------------------------
\* the call leaves every variable but the inventory and the call alone
InventoryCall(inv, c) ==
    /\ \A k \in DOMAIN inv : inv[k] <= MaxQty
    /\ inventory' = inv
    /\ call' = c
    /\ UNCHANGED <<gameData, currentMenuItems, currentMenuType,
                   selectedMenuItemIndex, isGoingBack, storyHistory,
                   currentHistoryIndex, userName, overlayVisible, timers,
                   nameInputs, fileInputs, terminal, burst, content, parsed,
                   scan, ev, redo>>

AddItem ==
    \E name \in ItemNames, qty \in Quantities :
        InventoryCall(addItem(inventory, name, qty),
                      Call("addItem", name, qty, <<>>, inventory,
                           addItemReturn(name, qty)))

RemoveItem ==
    \E name \in ItemNames, qty \in Quantities :
        InventoryCall(removeItem(inventory, name, qty),
                      Call("removeItem", name, qty, <<>>, inventory,
                           removeItemReturn(inventory, name, qty)))

HasItem ==
    \E name \in ItemNames, qty \in Quantities :
        InventoryCall(inventory,
                      Call("hasItem", name, qty, <<>>, inventory,
                           hasItem(inventory, name, qty)))

CheckInventoryCondition ==
    \E text \in ConditionTexts :
        InventoryCall(inventory,
                      Call("checkInventoryCondition", <<>>, 0, text, inventory,
                           checkInventoryCondition(inventory, text)))

\* the value applyInventoryConsequence returns is the one of the addItem or
\* removeItem it calls, TRUE exactly when that call changed the inventory
ApplyInventoryConsequence ==
    \E text \in ConsequenceTexts :
        InventoryCall(applyInventoryConsequence(inventory, text),
                      Call("applyInventoryConsequence", <<>>, 0, text, inventory,
                           applyInventoryConsequence(inventory, text) # inventory))

NextInventory ==
    \/ AddItem
    \/ RemoveItem
    \/ HasItem
    \/ CheckInventoryCondition
    \/ ApplyInventoryConsequence

SpecInventory == Init /\ [][NextInventory]_vars

\* ------------------------------------------------------------------------
\* Properties
\* ------------------------------------------------------------------------
\* every condition of a choice is satisfied by the inventory
ConditionsMet(inv, choice) ==
    \A i \in 1..Len(choice.conditions) :
        checkInventoryCondition(inv, choice.conditions[i])

\* a choice of a step is selected with Enter in this step of the behaviour
ChoiceTaken == ev'.op \in {"forward", "ending"}

\* C1: selecting a choice whose condition the inventory does not satisfy
\* leaves the current step, the history, its position and the inventory as
\* they were.
C1_UnmetConditionRejected ==
    [][(ChoiceTaken /\ ~ConditionsMet(inventory, SelectedChoice(State)))
        => /\ gameData'.currentStep = gameData.currentStep
           /\ storyHistory' = storyHistory
           /\ currentHistoryIndex' = currentHistoryIndex
           /\ inventory' = inventory]_vars

\* C2: after selecting a choice with a step target, going back and selecting
\* the same choice of the same step again, the current step is the step the
\* first selection reached and the inventory is what it was just before the
\* back navigation.
C2_ReselectAfterBack ==
    redo.phase = 3 => /\ gameData.currentStep = redo.reached
                      /\ inventory = redo.inv

C2_Reselected ==
    /\ redo.phase = 3
    /\ gameData.gameName = <<"Test">>
    /\ redo.step = "3"
    /\ redo.reached = "1"

\* C3: loading a file that `Save and quit` wrote in this document yields the
\* saved session: its current step, history, position and inventory.
C3_SaveLoadRoundTrip ==
    [][(ev'.op = "file" /\ ev'.file \in GameSaves /\ gameData.gameName = <<"Test">>)
        => /\ gameData'.currentStep = ev'.file.value.currentStep
           /\ storyHistory' = ev'.file.value.storyHistory
           /\ currentHistoryIndex' = ev'.file.value.currentHistoryIndex
           /\ inventory' = ev'.file.value.inventory.inventory]_vars

\* C4: selecting `Return to the previous page` under an ending leaves the
\* ending view and shows a story step again.
C4_EndingReturn ==
    [][(/\ ev'.op = "menu"
        /\ currentMenuType = "ending_options"
        /\ selectedItem(State) = <<"Return to the previous page">>)
        => /\ terminal'.kind = "story"
           /\ currentMenuType' # "ending_options"]_vars

C6_BackReturns ==
    [][(ev'.op = "back" /\ redo.phase = 1)
        => /\ gameData'.currentStep = redo.step
           /\ storyHistory' = storyHistory
           /\ inventory' = inventory]_vars

\* C7: selecting a choice with the consequence `USE key` while the inventory
\* holds exactly one key leaves no key in the inventory.
C7_UseConsumes ==
    [][(/\ ChoiceTaken
        /\ \E i \in 1..Len(SelectedChoice(State).consequences) :
              SelectedChoice(State).consequences[i] = <<"USE", " ", "key">>
        /\ getItemQuantity(inventory, <<"key">>) = 1)
        => ~hasItem(inventory', <<"key">>, 1)]_vars

\* the text the document stores for the ending a choice names
StoredEnding(data, target) ==
    CASE target = <<"ENDING_", "SUCCESS">> -> data.endings.success
      [] target = <<"ENDING_", "FAILURE">> -> data.endings.failure
      [] target = <<"ENDING_", "NEUTRAL">> -> data.endings.neutral
      [] OTHER -> <<>>

C9_StartAtStepOne == ev.op = "startTimer" => gameData.currentStep = "1"

C9_StartedAfterName ==
    /\ ev.op = "startTimer"
    /\ gameData.gameName = <<"Quest">>
    /\ userName = <<"Ann">>
    /\ terminal.kind = "story"

\* C10: when the start of a new game has completed, the inventory holds the
\* document's defaults and the history holds step 1 only.
C10_StartResets ==
    ev.op = "startTimer" => /\ inventory = gameData.inventory
                            /\ storyHistory = <<"1">>
                            /\ currentHistoryIndex = 0

\* a transition that a selection has started and that has not finished: the
\* name entry or the 50 ms timer of 'Start New Game'
StartPending ==
    \/ nameInputs > 0
    \/ \E i \in 1..Len(timers) : timers[i].cb = "startGame"

\* a selection is made in this step of the behaviour: Enter on a menu item
SelectionMade == ev'.op \in {"menu", "forward", "ending", "back", "invalid"}

\* C11: no selection is accepted while the transition of an earlier selection
\* has not finished.
C11_OneSelectionAtATime ==
    [][SelectionMade => ~StartPending]_vars

\* the session state: current step, history, its position, inventory, name
Session(s) ==
    <<s.gameData.currentStep, s.storyHistory, s.currentHistoryIndex,
      s.inventory, s.userName>>

\* a name entry or a save-file selection is pending
Suspended == nameInputs > 0 \/ fileInputs > 0

\* C12: a step that begins a name entry or a save-file selection, and a step
\* taken while one is pending that does not resolve it (the dismissal of the
\* file dialog among them), leave the session state as it was.
C12_SuspensionKeepsState ==
    [][(\/ nameInputs > 0 /\ ev'.op # "name"
        \/ fileInputs > 0 /\ ev'.op # "file"
        \/ ~Suspended /\ (nameInputs' > 0 \/ fileInputs' > 0))
       => Session([gameData |-> gameData', storyHistory |-> storyHistory',
                   currentHistoryIndex |-> currentHistoryIndex',
                   inventory |-> inventory', userName |-> userName'])
          = Session(State)]_vars

\* C13: selecting a choice whose step target is not a step of the document
\* leaves the current step, the history and its position as they were.
C13_DanglingTargetAborts ==
    [][(/\ ev'.op = "forward"
        /\ targetStepOf(SelectedChoice(State).target)[1] \notin DOMAIN gameData.steps)
        => /\ gameData'.currentStep = gameData.currentStep
           /\ storyHistory' = storyHistory
           /\ currentHistoryIndex' = currentHistoryIndex]_vars

\* the steps of a document with a choice whose step target is not a step of it
DanglingTargets(doc) ==
    { k \in DOMAIN doc.steps :
        \E i \in 1..Len(doc.steps[k].choices) :
            /\ doc.steps[k].choices[i].target[1] = "STEP_"
            /\ doc.steps[k].choices[i].target[2] \notin DOMAIN doc.steps }

\* C14: a text in which a choice targets a step that is not defined is not
\* accepted: every document parseFile returns has no such choice.
C14_NoDanglingTarget ==
    (parsed.done /\ parsed.ok) => DanglingTargets(parsed.doc) = {}

\* a save file is read in this step of the behaviour and its text is the
\* JSON text of an object
SaveRead == ev'.op = "file" /\ ev'.file.picked /\ ev'.file.ext = "sadv" /\ ev'.file.json

\* C15: resuming from a save whose current step is not a step of the loaded
\* document leaves the current step, the history and its position as they
\* were.
C15_AbsentStepRejected ==
    [][(/\ SaveRead
        /\ ev'.file.value.currentStep # Null
        /\ ev'.file.value.currentStep \notin DOMAIN gameData.steps)
        => /\ gameData'.currentStep = gameData.currentStep
           /\ storyHistory' = storyHistory
           /\ currentHistoryIndex' = currentHistoryIndex]_vars

\* C16: reading a save file whose text is not JSON, or whose object lacks the
\* current step, the history or the inventory, changes no field of the
\* session state and enters no step: the main menu stays.
C16_CorruptSaveRejected ==
    [][(/\ ev'.op = "file" /\ ev'.file.picked /\ ev'.file.ext = "sadv"
        /\ currentMenuType = "main"
        /\ \/ ~ev'.file.json
           \/ ev'.file.value.currentStep = Null
           \/ ev'.file.missing # {})
        => /\ Session([gameData |-> gameData', storyHistory |-> storyHistory',
                       currentHistoryIndex |-> currentHistoryIndex',
                       inventory |-> inventory', userName |-> userName'])
              = Session(State)
           /\ currentMenuType' = "main"]_vars

\* a back navigation is selected in this step of the behaviour while the
\* history has no earlier entry
BackWithoutEarlier == ev'.op = "back" /\ ~canGoBack(State)

OptionsAction ==
    \/ ev'.op = "options"
    \/ /\ ev'.op \in {"menu", "arrow"}
       /\ currentMenuType \in {"options", "font_size", "font_color"}
    \/ /\ ev'.op = "menu"
       /\ currentMenuType = "main"
       /\ selectedItem(State) = <<"Options">>

\* C18: no action of the options menu changes the current step, the history,
\* its position or the inventory.
C18_OptionsKeepStepState ==
    [][OptionsAction
        => /\ gameData'.currentStep = gameData.currentStep
           /\ storyHistory' = storyHistory
           /\ currentHistoryIndex' = currentHistoryIndex
           /\ inventory' = inventory]_vars

\* the options menu shown again from a font menu, during a game
C18_BackInOptions ==
    /\ ev.op = "menu"
    /\ terminal.kind = "options"
    /\ storyHistory = <<"1", "2">>
    /\ gameData.currentStep = "2"


\* a document is loaded and this step of the behaviour is not the load of a
\* document (the 800 ms callback of the `load` command)
SessionOperation == gameData.gameName # <<>> /\ ev'.op # "parseTimer"

\* C19: once a document is loaded no session operation changes or adds a
\* field of it: the document object stays as parseFile returned it.
C19_DocumentNeverMutated == [][SessionOperation => gameData' = gameData]_vars

\* the part of C19 about the parsed fields: the name, the main menu items,
\* the steps, the endings, the inventory defaults and the name flag
DocumentFields(data) == [data EXCEPT !.currentStep = Null]

C19_ParsedFieldsKept ==
    [][SessionOperation => DocumentFields(gameData') = DocumentFields(gameData)]_vars

\* C20: in every document parseFile returns, the labels of the choices of
\* each step are pairwise distinct.
C20_DistinctLabels ==
    (parsed.done /\ parsed.ok)
        => \A k \in DOMAIN parsed.doc.steps :
              \A i, j \in 1..Len(parsed.doc.steps[k].choices) :
                 parsed.doc.steps[k].choices[i].label
                    = parsed.doc.steps[k].choices[j].label => i = j

\* the part of C20 about a choice line without an arrow: parseFile throws
C20_MissingArrowRejected ==
    (parsed.done /\ \E i \in 1..Len(content) - 2 :
            SubSeq(content, i, i + 2) = <<"go", " ", "STEP_">>)
        => ~parsed.ok


\* the choice lines of a block that are neither blank nor of the grammar
MalformedIn(choiceLines) ==
    {i \in 1..Len(choiceLines) : choiceLines[i] \in MalformedChoiceLines}

\* C21: a text whose [CHOICES] block holds a non-blank line outside the
\* grammar is not parsed: parseFile throws, the error quotes the first such
\* line, and no document is returned.
C21_MalformedLineRejected ==
    parsed.done
        => \A withMenu \in BOOLEAN, choiceLines \in ChoiceBlocks :
              (content = TextOf(withMenu, choiceLines) /\ MalformedIn(choiceLines) # {})
                 => /\ ~parsed.ok
                    /\ parsed.doc = EmptyGameData
                    /\ parsed.error.kind = "Malformed choice line"
                    /\ \E i \in MalformedIn(choiceLines) :
                          /\ parsed.error.line = choiceLines[i]
                          /\ \A j \in MalformedIn(choiceLines) : i <= j

\* a block with a line of the grammar and then a line with the label E
C21_LabelERejected ==
    /\ parsed.done
    /\ content = TextOf(TRUE, << ChoiceLine("A", "Go", <<"STEP_", "2">>, <<>>),
                                 ChoiceLine("E", "Fly", <<"STEP_", "2">>, <<>>) >>)
    /\ ~parsed.ok
    /\ parsed.error = Thrown("Malformed choice line",
                             ChoiceLine("E", "Fly", <<"STEP_", "2">>, <<>>))


\* the texts in which the game name, the main menu or every step is missing
\* or blank, and no sub-section tag is stray
IncompleteTexts ==
    { TextSkeleton(name, menu, withStep, narrative, <<>>) :
        name \in Hows, menu \in Hows, withStep \in BOOLEAN, narrative \in Hows }
    \ { TextSkeleton("present", "present", TRUE, narrative, <<>>) : narrative \in Hows }

\* C22: parseFile returns a complete document or nothing: a returned document
\* has a game name, a main menu item and a step, and a text without one of
\* them makes parseFile throw.
C22_CompleteOrNothing ==
    parsed.done
        => /\ parsed.ok => /\ parsed.doc.gameName # <<>>
                           /\ Len(parsed.doc.mainMenuItems) >= 1
                           /\ DOMAIN parsed.doc.steps # {}
           /\ ~parsed.ok => parsed.doc = EmptyGameData
           /\ content \in IncompleteTexts => ~parsed.ok

\* a text with a game name and a step but no [MAIN_MENU] was refused
C22_NoMenuRefused ==
    /\ parsed.done
    /\ content = TextSkeleton("present", "absent", TRUE, "present", <<>>)
    /\ parsed = [done |-> TRUE, ok |-> FALSE, doc |-> EmptyGameData,
                 error |-> Thrown("Missing or empty [MAIN_MENU] section", <<>>)]


\* the texts with a [NARRATIVE] or [CHOICES] tag where no step block is open
StrayTagTexts ==
    { TextSkeleton(name, menu, withStep, narrative, stray) :
        name \in Hows, menu \in Hows, withStep \in BOOLEAN, narrative \in Hows,
        stray \in Strays \ {<<>>} }

\* the complete texts whose sub-section tags all stand in an open step block
NestedTagTexts ==
    { TextSkeleton("present", "present", TRUE, narrative, <<>>) :
        narrative \in {"present", "blank"} }
    \cup { TextOf(TRUE, <<>>), TextTest, TextQuest, TextSide }

\* C23: a [NARRATIVE] or [CHOICES] tag met while no step block is open makes
\* parseFile throw; inside an open step block the tag is accepted.
C23_SubSectionOnlyInStep ==
    parsed.done
        => /\ content \in StrayTagTexts
                => /\ ~parsed.ok
                   /\ parsed.error.kind = "found outside of a [STEP_X] block"
                   /\ parsed.error.line \in {<<"NARRATIVE">>, <<"CHOICES">>}
           /\ content \in NestedTagTexts => parsed.ok

\* a [CHOICES] tag after [/STEP_1] was refused
C23_AfterCloseRefused ==
    /\ parsed.done
    /\ content = TextSkeleton("present", "present", TRUE, "present",
                              <<<<"CHOICES">>, "closed">>)
    /\ ~parsed.ok
    /\ parsed.error = Thrown("found outside of a [STEP_X] block", <<"CHOICES">>)


\* C24: every step of a document parseFile returns has a narrative that is
\* not empty.
C24_NarrativeNonEmpty ==
    (parsed.done /\ parsed.ok)
        => \A k \in DOMAIN parsed.doc.steps : parsed.doc.steps[k].narrative # <<>>


\* the quantity on hand of an item: what is stored under its name, or 0
OnHand(inv, name) == IF name \in DOMAIN inv THEN inv[name] ELSE 0

\* the two inventories agree on every item but the named one
SameButFor(inv1, inv2, name) ==
    \A k \in (DOMAIN inv1 \cup DOMAIN inv2) \ {name} :
        k \in DOMAIN inv1 /\ k \in DOMAIN inv2 /\ inv1[k] = inv2[k]

\* C25: removeItem(name, qty) with qty > 0 returns false and changes nothing
\* when less than qty is on hand; otherwise it returns true, the quantity of
\* the item drops by qty, its key is deleted at zero, no other item changes.
C25_RemoveItem ==
    (call.op = "removeItem" /\ call.qty > 0)
        => IF OnHand(call.before, call.name) < call.qty
           THEN ~call.returned /\ inventory = call.before
           ELSE /\ call.returned
                /\ OnHand(inventory, call.name)
                      = OnHand(call.before, call.name) - call.qty
                /\ (OnHand(call.before, call.name) = call.qty
                      => call.name \notin DOMAIN inventory)
                /\ SameButFor(inventory, call.before, call.name)

\* both keys were removed and the lamp was left
C25_LastKeyRemoved ==
    /\ call.op = "removeItem"
    /\ call.name = <<"key">>
    /\ call.qty = 2
    /\ call.returned
    /\ DOMAIN call.before = {<<"key">>, <<"lamp">>}
    /\ call.before[<<"key">>] = 2
    /\ DOMAIN inventory = {<<"lamp">>}
    /\ inventory[<<"lamp">>] = call.before[<<"lamp">>]


\* addItem(name, qty) adds qty to the quantity on hand of a non-empty name
\* when qty > 0 and changes nothing otherwise
AddItemAdds ==
    call.op = "addItem"
        => IF call.name # <<>> /\ call.qty > 0
           THEN /\ OnHand(inventory, call.name)
                      = OnHand(call.before, call.name) + call.qty
                /\ SameButFor(inventory, call.before, call.name)
           ELSE inventory = call.before

\* C26 as stated: addItem adds qty or changes nothing, and hasItem(name, q)
\* is true exactly when the quantity on hand of name is at least q.
C26_AddItemHasItem ==
    /\ AddItemAdds
    /\ call.op = "hasItem"
         => call.returned = (OnHand(call.before, call.name) >= call.qty)

\* C26 amended: addItem adds qty or changes nothing; hasItem(name, q) is
\* false for the empty name whatever q is, and for a non-empty name it is
\* true exactly when the quantity on hand is at least q.
C26_AddItem ==
    /\ AddItemAdds
    /\ call.op = "hasItem"
         => call.returned = (/\ call.name # <<>>
                             /\ OnHand(call.before, call.name) >= call.qty)

\* a second key was added to an inventory with a key and a lamp
C26_SecondKeyAdded ==
    /\ call.op = "addItem"
    /\ call.name = <<"key">>
    /\ call.qty = 1
    /\ DOMAIN call.before = {<<"key">>, <<"lamp">>}
    /\ call.before[<<"key">>] = 1
    /\ inventory = [call.before EXCEPT ![<<"key">>] = 2]


\* the condition text is `<item>`
IsItemText(text) == Len(text) = 1 /\ text[1] \in {"key", "lamp"}

\* the condition text is `<item>:<qty>` with an integer qty >= 0
IsItemQtyText(text) ==
    /\ Len(text) = 3
    /\ text[1] \in {"key", "lamp"}
    /\ text[2] = ":"
    /\ text[3] \in {"0", "1", "2", "3"}

\* what C27 says of a condition text, given the inventory
Satisfied(inv, text) ==
    IF IsItemText(text) THEN OnHand(inv, <<text[1]>>) >= 1
    ELSE IF IsItemQtyText(text) THEN OnHand(inv, <<text[1]>>) >= IntOf[text[3]]
    ELSE TRUE

\* C27: `<item>` is satisfied exactly when at least 1 is on hand,
\* `<item>:<qty>` exactly when at least qty is on hand, for every qty >= 0,
\* and a text of neither form is satisfied.
C27_ConditionEvaluation ==
    call.op = "checkInventoryCondition"
        => call.returned = Satisfied(call.before, call.text)

\* the part of C27 about `<item>` and about `<item>:<qty>` with qty >= 1
C27_PositiveQuantities ==
    (/\ call.op = "checkInventoryCondition"
     /\ \/ IsItemText(call.text)
        \/ IsItemQtyText(call.text) /\ call.text[3] # "0")
        => call.returned = Satisfied(call.before, call.text)


\* the inventory is the earlier one with n of the item removed, or the earlier
\* one as it was when less than n is on hand
RemovedFrom(inv, before, item, n) ==
    /\ OnHand(inv, item) = IF OnHand(before, item) >= n
                            THEN OnHand(before, item) - n ELSE OnHand(before, item)
    /\ SameButFor(inv, before, item)

\* the inventory is the earlier one with n more of the item
AddedTo(inv, before, item, n) ==
    /\ OnHand(inv, item) = OnHand(before, item) + n
    /\ SameButFor(inv, before, item)

\* what a USE or SET inventory directive does, for the quantities in qs
ConsequenceApplied(qs) ==
    call.op = "applyInventoryConsequence"
        => LET text == call.text IN
           /\ (Len(text) = 3 /\ text[1] = "USE")
                 => RemovedFrom(inventory, call.before, <<text[3]>>, 1)
           /\ (Len(text) = 5 /\ text[1] = "USE" /\ IntOf[text[5]] \in qs)
                 => RemovedFrom(inventory, call.before, <<text[3]>>, IntOf[text[5]])
           /\ (Len(text) = 7 /\ text[3] = "inventory" /\ IntOf[text[7]] > 0)
                 => AddedTo(inventory, call.before, <<text[5]>>, IntOf[text[7]])
           /\ (Len(text) = 7 /\ text[3] = "inventory" /\ IntOf[text[7]] < 0)
                 => RemovedFrom(inventory, call.before, <<text[5]>>, 0 - IntOf[text[7]])

\* C28: `USE <item>` removes 1 of the item and `USE <item>:<q>` removes q;
\* `SET inventory:<item>:<q>` adds q when q is positive and removes |q| when
\* q is negative; a removal that exceeds the stock changes nothing.
C28_ConsequenceApplication == ConsequenceApplied(0..MaxQty)

\* the same for `USE <item>:<q>` with q of at least 1
C28_PositiveQuantities == ConsequenceApplied(1..MaxQty)


ForwardTransition == ev'.op \in {"forward", "startTimer"}

\* this step records exactly one history entry, right after the position
OneEntryRecorded ==
    /\ currentHistoryIndex' = currentHistoryIndex + 1
    /\ Len(storyHistory') = currentHistoryIndex' + 1
    /\ storyHistory'[Len(storyHistory')] = gameData'.currentStep
    /\ SubSeq(storyHistory', 1, currentHistoryIndex + 1)
          = SubSeq(storyHistory, 1, currentHistoryIndex + 1)

\* C30: every forward transition to a step records exactly one history
\* entry, so that the entries up to the position grow by one, and a back
\* navigation records none.
C30_OneEntryPerForward ==
    [][/\ ForwardTransition => OneEntryRecorded
       /\ ev'.op = "back" => storyHistory' = storyHistory]_vars

\* the extras as the line spells them: what stands between the braces, cut at
\* each `;`, each piece trimmed
WrittenExtras(line) ==
    IF ~Includes(line, "{") THEN <<>>
    ELSE LET open == CHOOSE i \in 1..Len(line) :
                         line[i] = "{" /\ \A j \in 1..(i - 1) : line[j] # "{"
             parts == Split(Trim(SubSeq(line, open + 1, Len(line) - 1)), ";")
         IN [i \in 1..Len(parts) |-> Trim(parts[i])]

StartsWithAny(extra, words) == extra # <<>> /\ Head(extra) \in words

\* the choice lines of a block that carry braces, each with the position of
\* its choice among the choices of the block
BracedLines(block) ==
    { i \in 1..Len(block) : Includes(block[i], "{") }

ChoiceIndex(block, i) == Cardinality({ j \in 1..i : Trim(block[j]) # <<>> })

\* the text parsed is the one with this block, and parseFile has returned
ParsedBlock(block) ==
    /\ parsed.done
    /\ parsed.ok
    /\ \E withMenu \in BOOLEAN : content = TextOf(withMenu, block)

\* C31: for a choice line with a '{...}' block the extras are classified in
\* source order: the IF extras are the choice's conditions (the text after
\* IF, trimmed), the SET and USE extras are its consequences as written, and
\* no extra is left out of both lists when the text is accepted.
C31_ExtrasClassified ==
    \A block \in ChoiceBlocks :
        ParsedBlock(block) =>
            \A i \in BracedLines(block) :
                LET extras == WrittenExtras(block[i])
                    choice == parsed.doc.steps["1"].choices[ChoiceIndex(block, i)]
                    ifs == SelectSeq(extras, LAMBDA e : StartsWithAny(e, {"IF"}))
                    sets == SelectSeq(extras, LAMBDA e : StartsWithAny(e, {"SET", "USE"}))
                IN /\ choice.conditions = [k \in 1..Len(ifs) |-> Trim(Tail(ifs[k]))]
                   /\ choice.consequences = sets
                   /\ Len(choice.conditions) + Len(choice.consequences) = Len(extras)

\* C31, the part that holds: the IF, SET and USE extras are classified in
\* source order whatever else the braces hold
C31_KnownExtrasClassified ==
    \A block \in ChoiceBlocks :
        ParsedBlock(block) =>
            \A i \in BracedLines(block) :
                LET extras == WrittenExtras(block[i])
                    choice == parsed.doc.steps["1"].choices[ChoiceIndex(block, i)]
                    ifs == SelectSeq(extras, LAMBDA e : StartsWithAny(e, {"IF"}))
                    sets == SelectSeq(extras, LAMBDA e : StartsWithAny(e, {"SET", "USE"}))
                IN /\ choice.conditions = [k \in 1..Len(ifs) |-> Trim(Tail(ifs[k]))]
                   /\ choice.consequences = sets

\* the text parsed is the one with this [RANDOM_EVENT] block
ParsedEvents(eventLines) == parsed.done /\ content = TextEvents(eventLines)

NonBlank(lines) == SelectSeq(lines, LAMBDA l : Trim(l) # <<>>)

\* C32: a non-blank line of a RANDOM_EVENT block is accepted (added to
\* randomEvents) exactly when it carries both a chance field and an outcome
\* field, for every numeric chance value including 0; a line missing either
\* field makes parsing fail.
C32_EventLineAccepted ==
    \A eventLines \in EventBlocks :
        ParsedEvents(eventLines) =>
            LET lines == NonBlank(eventLines) IN
            /\ (\A i \in 1..Len(lines) : lines[i] \in EventLinesBoth)
                    => parsed.ok /\ Len(parsed.doc.randomEvents) = Len(lines)
            /\ (\E i \in 1..Len(lines) : lines[i] \in EventLinesMissing) => ~parsed.ok

\* C32, the part that holds: a line missing either field makes parsing
\* fail, and lines with both fields and a chance other than zero are all added
C32_NonZeroChanceAccepted ==
    \A eventLines \in EventBlocks :
        ParsedEvents(eventLines) =>
            LET lines == NonBlank(eventLines) IN
            /\ (\A i \in 1..Len(lines) :
                    lines[i] \in EventLinesBoth \ {EventLine("0"), EventLine("0.0")})
                    => parsed.ok /\ Len(parsed.doc.randomEvents) = Len(lines)
            /\ (\E i \in 1..Len(lines) : lines[i] \in EventLinesMissing) => ~parsed.ok

\* C33: during the scan, whenever a sub-section (NARRATIVE or CHOICES) is
\* open the current section is an open STEP_ block, so that flushing the
\* buffer never dereferences a missing section.
C33_SubSectionInsideStep ==
    /\ (scan.ps.ok /\ scan.ps.currentSubSection # <<>>)
          => /\ scan.ps.currentSection # <<>>
             /\ Head(scan.ps.currentSection) = "STEP_"
    /\ scan.ps.error.kind # "TypeError"

\* the history position is inside the history, and -1 exactly when the
\* history is empty
HistoryIndexInRange(hist, idx) ==
    /\ 0 - 1 <= idx
    /\ idx <= Len(hist) - 1
    /\ (idx = 0 - 1) <=> (hist = <<>>)

\* C34: after any sequence of pushStoryToHistory, goBackInHistory and
\* clearStoryHistory calls, -1 <= currentHistoryIndex <= length(storyHistory) - 1,
\* and the position is -1 exactly when the history is empty.
C34_HistoryIndex == HistoryIndexInRange(storyHistory, currentHistoryIndex)

\* the last event went back from the second entry of a history of two
C34_BackBelowLast ==
    /\ ev.op = "back"
    /\ Len(storyHistory) = 2
    /\ currentHistoryIndex = 0

\* C35: whenever a story step's choice menu is displayed (menu type
\* story_choices), the current step equals the history entry at the current
\* history position.
C35_StepIsHistoryEntry ==
    currentMenuType = "story_choices"
        => /\ 0 <= currentHistoryIndex
           /\ currentHistoryIndex < Len(storyHistory)
           /\ storyHistory[currentHistoryIndex + 1] = gameData.currentStep

\* C35, the part that holds: a choice selected or a step gone back from a
\* state where the current step is the entry at the position leads to such a
\* state again
C35_ChoiceAndBackKeep ==
    [][(/\ ev'.op \in {"forward", "back"}
        /\ currentMenuType = "story_choices"
        /\ C35_StepIsHistoryEntry)
        => C35_StepIsHistoryEntry']_vars

\* the overlay is opened or closed with Escape or closed with 'Return' in
\* this step of the behaviour
OverlayToggled == ev'.op \in {"escape", "return"}

\* C36: opening the overlay menu during a game and closing it again with
\* 'Return' (or Escape) leaves the current step, the history entries and the
\* history position as they were.
C36_OverlayKeepsSession ==
    [][OverlayToggled
        => /\ gameData'.currentStep = gameData.currentStep
           /\ storyHistory' = storyHistory
           /\ currentHistoryIndex' = currentHistoryIndex]_vars

\* C36, the part that holds: opening the overlay changes none of the three,
\* and closing it keeps the current step
C36_OverlayKeepsStep ==
    [][OverlayToggled
        => /\ gameData'.currentStep = gameData.currentStep
           /\ ~overlayVisible
                => /\ storyHistory' = storyHistory
                   /\ currentHistoryIndex' = currentHistoryIndex]_vars

\* 'Save and quit' or 'Quit without saving' is clicked in this step of the
\* behaviour
QuitClicked == ev'.op \in {"saveQuit", "quit"}

\* C37: once 'Save and quit' or 'Quit without saving' has returned the player
\* to the main menu or the command prompt no current step remains set, so
\* that toggling the overlay does nothing.
C37_NoStepAfterQuit ==
    [][QuitClicked
        => /\ gameData'.currentStep = Null
           /\ toggleOverlayMenu(State)' = State']_vars

\* C37, the part that holds: after 'Quit without saving' no current step is
\* set and toggling the overlay does nothing
C37_NoStepAfterQuitWithoutSaving ==
    [][ev'.op = "quit"
        => /\ gameData'.currentStep = Null
           /\ toggleOverlayMenu(State)' = State']_vars

\* the directives with quantity zero
ZeroConsequenceTexts ==
    { <<"SET", " ", "inventory", ":", item, ":", "0">> : item \in {"key", "lamp"} }
    \cup { <<"USE", " ", item, ":", "0">> : item \in {"key", "lamp"} }

ZeroConditionTexts == { <<item, ":", "0">> : item \in {"key", "lamp"} }

\* C38: a directive with quantity zero changes nothing: applying
\* 'SET inventory:<item>:0' or 'USE <item>:0' leaves the inventory unchanged,
\* and a condition '<item>:0' asks for zero units, which any inventory holds.
C38_ZeroQuantity ==
    /\ (call.op = "applyInventoryConsequence" /\ call.text \in ZeroConsequenceTexts)
          => inventory = call.before
    /\ (call.op = "checkInventoryCondition" /\ call.text \in ZeroConditionTexts)
          => call.returned

\* C39: starting from an inventory whose stored quantities are all positive
\* integers, after any sequence of addItem, removeItem and
\* applyInventoryConsequence calls every stored key has a quantity of at
\* least 1, and hasItem(name) is true exactly for the stored keys.
C39_StoredQuantitiesPositive ==
    /\ \A k \in DOMAIN inventory : inventory[k] >= 1
    /\ \A name \in ItemNames : hasItem(inventory, name, 1) <=> name \in DOMAIN inventory

\* the last key was used up by a consequence and is stored no more
C39_LastKeyUsed ==
    /\ call.op = "applyInventoryConsequence"
    /\ call.text = <<"USE", " ", "key">>
    /\ DOMAIN call.before = {<<"key">>, <<"lamp">>}
    /\ call.before[<<"key">>] = 1
    /\ DOMAIN inventory = {<<"lamp">>}

=============================================================================
